---- MODULE Spec2Model ----
(***************************************************************************)
(* Wild-fire resource management: the greedy fractional reallocation       *)
(* script (backend/resource_optimized.py), the tile data pipeline          *)
(* (backend/model.py) and the HTTP routes (backend/routes.py), as state    *)
(* machines.                                                               *)
(*                                                                         *)
(* Spec          one invocation of the reallocation script on a zone table *)
(*               (the CSV), one loop iteration per step.                   *)
(* SpecRerun     the script invoked again on the same file, as the         *)
(*               /optimize_resources route does on every request.          *)
(* SpecNearest   find_nearest_zone applied to a source and a target frame  *)
(*               drawn from a coordinate grid.                             *)
(* SpecPipeline  get_dataset: its configuration checks, the construction   *)
(*               of the tf.data pipeline and the elements pulled from it.  *)
(* SpecRead      get_dataset reading shards that may hold a malformed      *)
(*               record.                                                   *)
(* SpecEpochs    the dataset of get_dataset iterated once per epoch, under *)
(*               weak fairness of the next step.                           *)
(* SpecRoutes    the Flask application answering requests to its four     *)
(*               routes.                                                   *)
(* SpecBaseKey   _get_base_key applied to a key.                           *)
(* SpecTransform _clip_and_rescale and _clip_and_normalize applied to a    *)
(*               value of a feature.                                       *)
(* SpecParse     _parse_fn applied to one serialized example, its tensors  *)
(*               followed cell by cell.                                    *)
(***************************************************************************)
EXTENDS Integers, Sequences, FiniteSets, TLC

VARIABLES
    csv,        \* resources_output.csv: the zone table on disk
    df,         \* the data frame the running script loaded
    pc,         \* position of the script: "pass1", "pass2", "print", "done"
    idx,        \* position of the current for-loop in its frame (1-based)
    results,    \* the script's `results` list
    stdout,     \* what the script printed: json.dumps(results), once printed
    run,        \* number of the current invocation of the script
    prev_stdout, \* what the previous invocation printed, or NotPrinted
    nz_pc,      \* find_nearest_zone call: "idle", "called", "returned"
    nz_source,  \* its source_row
    nz_targets, \* its target_zones
    nz_result,  \* what it returned
    cfg,        \* the arguments of the get_dataset call
    shards,     \* the files file_pattern matches: the record count of each
    gd_pc,      \* position in get_dataset and in the iteration of its result
    gd_error,   \* the exception raised, or NoError
    io,         \* I/O done so far: files listed, shards opened, records read
    pos,        \* per shard, the number of its records read so far
    sample,     \* the element produced last, or NoSample
    corrupt,    \* the malformed records of the shards: <<shard, record>> to its defect
    batch,      \* the records whose samples dataset.batch has gathered
    delivered,  \* the records whose samples were delivered in a batch
    batches,    \* the number of batches delivered
    batch_sizes, \* the number of samples in each batch delivered, in order
    epochs,     \* the iterations of the dataset completed before this one
    rng,        \* the values drawn so far from the generator of random_crop
    data_stats, \* the module-level DATA_STATS table the transforms read
    call,       \* a helper of the pipeline called on its own: its arguments
    call_pc,    \* position of that call: "idle", "called", ..., "returned"
    ret,        \* what the call returned or raised, or NoReturn
    http_pc,    \* the Flask application: "idle", "received", "responded"
    request,    \* the HTTP request being handled
    response,   \* what the application answered to it
    process,    \* what the subprocess.run of the handler returned or raised
    map_file,   \* whether generated_map.html exists in the working directory
    served      \* the number of requests answered

realloc_vars == <<csv, df, pc, idx, results, stdout, run, prev_stdout>>
nearest_vars == <<nz_pc, nz_source, nz_targets, nz_result>>
pipe_vars == <<cfg, shards, gd_pc, gd_error, io, pos, sample, corrupt, batch, delivered, batches, batch_sizes, epochs, rng>>
call_vars == <<data_stats, call, call_pc, ret>>
http_vars == <<http_pc, request, response, process, map_file, served>>
vars == <<realloc_vars, nearest_vars, pipe_vars, call_vars, http_vars>>

----------------------------------------------------------------------------
(* Bounds of the model.                                                    *)

\* Rows of the zone table.
MaxZones == 4
\* Rows of the zone table when the script is run more than once.
RerunZones == 3
\* Invocations of the script on one zone table.
MaxRuns == 2
\* Coordinates and target rows of a find_nearest_zone call.
MaxCoord == 2
MaxTargets == 3
\* Side of a tile, shards matched by the file pattern, records in a shard.
MaxDataSize == 3
MaxShards == 2
MaxRecords == 2
\* Samples in a batch.
MaxBatch == 2
\* Characters of a feature key passed to _get_base_key on its own.
MaxKeyLen == 6
\* Iterations of one dataset (epochs of model.fit).
MaxEpochs == 2
\* Requests the application answers, Transfer Events the script prints.
MaxRequests == 2
MaxEvents == 2

----------------------------------------------------------------------------
(* Feature names and their statistics (backend/model.py).  A name is the   *)
(* sequence of its characters.  A statistic is written in units of 1e-4,   *)
(* rounded to the nearest unit.                                            *)

INPUT_FEATURES ==
    << <<"e", "l", "e", "v", "a", "t", "i", "o", "n">>,
       <<"t", "h">>,
       <<"v", "s">>,
       <<"t", "m", "m", "n">>,
       <<"t", "m", "m", "x">>,
       <<"s", "p", "h">>,
       <<"p", "r">>,
       <<"p", "d", "s", "i">>,
       <<"N", "D", "V", "I">>,
       <<"p", "o", "p", "u", "l", "a", "t", "i", "o", "n">>,
       <<"e", "r", "c">>,
       <<"P", "r", "e", "v", "F", "i", "r", "e", "M", "a", "s", "k">> >>

OUTPUT_FEATURES == << <<"F", "i", "r", "e", "M", "a", "s", "k">> >>

DATA_STATS ==
    (<<"e", "l", "e", "v", "a", "t", "i", "o", "n">> :> <<0, 35360000, 8965714, 8426101>>)
    @@ (<<"p", "d", "s", "i">> :> <<-60559, 67432, -7729, 24407>>)
    @@ (<<"N", "D", "V", "I">> :> <<-38260000, 92820000, 53506865, 21852192>>)
    @@ (<<"p", "r">> :> <<0, 192422, 3234, 15337>>)
    @@ (<<"s", "p", "h">> :> <<0, 10000, 65, 37>>)
    @@ (<<"t", "h">> :> <<0, 3600000, 1466468, 34350725>>)
    @@ (<<"t", "m", "m", "n">> :> <<2531500, 2996313, 2818520, 184972>>)
    @@ (<<"t", "m", "m", "x">> :> <<2531500, 3173869, 2977164, 194581>>)
    @@ (<<"v", "s">> :> <<0, 97368, 36278, 13092>>)
    @@ (<<"e", "r", "c">> :> <<0, 1099254, 534690, 250980>>)
    @@ (<<"p", "o", "p", "u", "l", "a", "t", "i", "o", "n">> :> <<0, 29357549, 304603, 2142002>>)
    @@ (<<"P", "r", "e", "v", "F", "i", "r", "e", "M", "a", "s", "k">> :> <<-10000, 10000, 0, 10000>>)
    @@ (<<"F", "i", "r", "e", "M", "a", "s", "k">> :> <<-10000, 10000, 0, 10000>>)

\* One statistic is the tuple (min_clip, max_clip, mean, std).
min_clip(stat) == stat[1]
max_clip(stat) == stat[2]
mean(stat) == stat[3]
std(stat) == stat[4]

\* The characters the class [a-zA-Z] matches.
asciiLetters ==
    {"a", "b", "c", "d", "e", "f", "g", "h", "i", "j", "k", "l", "m",
     "n", "o", "p", "q", "r", "s", "t", "u", "v", "w", "x", "y", "z",
     "A", "B", "C", "D", "E", "F", "G", "H", "I", "J", "K", "L", "M",
     "N", "O", "P", "Q", "R", "S", "T", "U", "V", "W", "X", "Y", "Z"}

\* What a call returns, or the exception that leaves it.
Returned(value) == [raised |-> FALSE, error |-> "none", value |-> value]
Raised(error) == [raised |-> TRUE, error |-> error, value |-> <<>>]
NoReturn == [raised |-> FALSE, error |-> "none", value |-> <<>>]
NoCall == [fn |-> "none"]

ErrKeyPattern == "ValueError: The provided key does not match the expected pattern"
ErrNoStats == "ValueError: No data statistics available for the requested key"

\* _get_base_key with re.search in place of re.match: the first alphabetic
\* run anywhere in the key.
get_base_key_search(key) ==
    LET starts == { i \in 1..Len(key) : key[i] \in asciiLetters }
    IN IF starts = {}
       THEN Raised(ErrKeyPattern)
       ELSE LET first == CHOOSE i \in starts : \A j \in starts : i <= j
                ends == { n \in first..Len(key) :
                            \A i \in first..n : key[i] \in asciiLetters }
                last == CHOOSE n \in ends : \A k \in ends : k <= n
            IN Returned(SubSeq(key, first, last))

\* _get_base_key: re.match anchors ([a-zA-Z]+) at the start of the key and
\* the group is greedy, so it is the longest alphabetic prefix; without a
\* match the function raises.
_get_base_key(key) ==
    LET runs == { n \in 1..Len(key) : \A i \in 1..n : key[i] \in asciiLetters }
    IN IF runs = {}
       THEN Raised(ErrKeyPattern)
       ELSE Returned(SubSeq(key, 1, CHOOSE n \in runs : \A k \in runs : k <= n))

\* The value 1.0 in the units statistics and raw cell values are written in.
Unit == 100 * 100

\* A number a transform yields: the quotient num / den, kept unreduced.  A
\* zero den stands for the NaN or infinity a float division by zero gives.
Quotient(num, den) == [num |-> num, den |-> den]

\* A raw decoded value, as a number.
Raw(x) == Quotient(x, Unit)

\* tf.clip_by_value: minimum(maximum(t, clip_value_min), clip_value_max).
clip_by_value(t, clip_value_min, clip_value_max) ==
    LET raised == IF t < clip_value_min THEN clip_value_min ELSE t
    IN IF raised > clip_value_max THEN clip_value_max ELSE raised

\* The true division x / y of floats, zero denominator included.
divide(x, y) == Quotient(x, y)

\* tf.math.divide_no_nan: 0 where the denominator is 0, x / y elsewhere.
divide_no_nan(x, y) == IF y = 0 THEN Quotient(0, 1) ELSE Quotient(x, y)

\* _clip_and_rescale without its clip.
rescale_unclipped(inputs, key) ==
    LET base == _get_base_key(key)
    IN IF base.raised
       THEN base
       ELSE IF base.value \notin DOMAIN data_stats
            THEN Raised(ErrNoStats)
            ELSE LET stat == data_stats[base.value]
                 IN Returned(divide_no_nan(inputs - min_clip(stat),
                                           max_clip(stat) - min_clip(stat)))

\* _clip_and_rescale on one cell of `inputs` (the operations are elementwise).
_clip_and_rescale(inputs, key) ==
    LET base == _get_base_key(key)
    IN IF base.raised
       THEN base
       ELSE IF base.value \notin DOMAIN data_stats
            THEN Raised(ErrNoStats)
            ELSE LET stat == data_stats[base.value]
                     clipped == clip_by_value(inputs, min_clip(stat), max_clip(stat))
                 IN Returned(divide_no_nan(clipped - min_clip(stat),
                                           max_clip(stat) - min_clip(stat)))

\* _clip_and_normalize centring on the lower clip bound and scaling by the
\* clip range, the statistics of the other transform.
normalize_by_range(inputs, key) ==
    LET base == _get_base_key(key)
    IN IF base.raised
       THEN base
       ELSE IF base.value \notin DOMAIN data_stats
            THEN Raised(ErrNoStats)
            ELSE LET stat == data_stats[base.value]
                     clipped == clip_by_value(inputs, min_clip(stat), max_clip(stat))
                 IN Returned(divide_no_nan(clipped - min_clip(stat), std(stat)))

\* _clip_and_normalize on one cell of `inputs`.
_clip_and_normalize(inputs, key) ==
    LET base == _get_base_key(key)
    IN IF base.raised
       THEN base
       ELSE IF base.value \notin DOMAIN data_stats
            THEN Raised(ErrNoStats)
            ELSE LET stat == data_stats[base.value]
                     clipped == clip_by_value(inputs, min_clip(stat), max_clip(stat))
                 IN Returned(divide_no_nan(clipped - mean(stat), std(stat)))

----------------------------------------------------------------------------
(* The zone table.                                                         *)

\* fire_zone labels: the four keys of priority_map and one label that is
\* not a key (df["fire_zone"].map gives NaN for it).
Categories == {"Critical Day 1", "Critical Day 2", "At Risk Day 3", "Safe Zone"}
Labels == Categories \cup {"Unclassified"}

\* county_name is the table's unique key: row k carries the k-th name.
ZoneNames == <<"A", "B", "C", "D", "E", "F">>

\* A site is a location with the capacities stationed there:
\* <<latitude, longitude, firefighter_capacity, water_tank_capacity>>.
Sites == { <<0, 0, 100, 1000>>, <<1, 0, 7, 4>>, <<10, 10, 3, 0>> }
\* The sites of the zones that give: the categories the passes iterate over.
SourceSites == { <<0, 0, 100, 1000>>, <<1, 0, 7, 4>> }

MkRow(k, label, site) ==
    [county_name |-> ZoneNames[k],
     latitude |-> site[1],
     longitude |-> site[2],
     firefighter_capacity |-> site[3],
     water_tank_capacity |-> site[4],
     fire_zone |-> label]

\* The rows a table may hold, as <<label, site>>: a zone that gives at a
\* source site, a zone that receives at any site, and one zone whose label is
\* no key of priority_map.
RowKinds ==
    ({"Safe Zone", "At Risk Day 3"} \X SourceSites)
        \cup ({"Critical Day 1", "Critical Day 2"} \X Sites)
        \cup { <<"Unclassified", <<1, 0, 7, 4>> >> }

\* The table of m rows of the given kinds.
MkTable(m, kind) == [k \in 1..m |-> MkRow(k, kind[k][1], kind[k][2])]

\* file is a zone table of at most n rows.
IsTable(file, n) ==
    \E m \in 0..n : \E kind \in [1..m -> RowKinds] : file = MkTable(m, kind)

\* pd.read_csv: the frame holds the file's rows in file order.
read_csv(file) == file

priority_map ==
    ("Critical Day 1" :> 4) @@ ("Critical Day 2" :> 3) @@
    ("At Risk Day 3" :> 2) @@ ("Safe Zone" :> 1)

\* HasPriority with a label that is no key taken for a "Safe Zone", as a map
\* followed by fillna(1) would.
HasPriorityDefaulting(row, p) ==
    IF row.fire_zone \in DOMAIN priority_map
    THEN priority_map[row.fire_zone] = p
    ELSE p = 1

\* df["priority"] == p, with df["priority"] = df["fire_zone"].map(priority_map):
\* a label that is no key maps to NaN, which equals no number.
HasPriority(row, p) ==
    /\ row.fire_zone \in DOMAIN priority_map
    /\ priority_map[row.fire_zone] = p

\* df[df["priority"] == p]: the matching rows, in the frame's row order.
SelectRows(frame, p) == SelectSeq(frame, LAMBDA row : HasPriority(row, p))

safe_zones == SelectRows(df, 1)
\* The sources of the second pass selected with the safe zones among them.
at_risk_zones_with_safe ==
    SelectSeq(df, LAMBDA row : HasPriority(row, 1) \/ HasPriority(row, 2))
at_risk_zones == SelectRows(df, 2)
critical_zones_1 == SelectRows(df, 4)
\* The second target frame selected with the first one's priority.
critical_zones_2_priority4 == SelectRows(df, 4)
critical_zones_2 == SelectRows(df, 3)

----------------------------------------------------------------------------
(* find_nearest_zone.                                                      *)

None == [none |-> TRUE]

\* distance.euclidean is the square root of this sum; the square root is
\* monotone and exact enough on these coordinates to keep the order and the
\* ties of the sums, so the sums are compared.
euclidean(u, v) == (u[1] - v[1]) * (u[1] - v[1]) + (u[2] - v[2]) * (u[2] - v[2])

\* np.argmin with the last of several minima.
argmin_last(distances) ==
    CHOOSE n \in 1..Len(distances) :
        /\ \A m \in 1..Len(distances) : distances[n] <= distances[m]
        /\ \A m \in (n + 1)..Len(distances) : distances[m] > distances[n]

\* np.argmin: the index of the first minimum.
argmin(distances) ==
    CHOOSE n \in 1..Len(distances) :
        /\ \A m \in 1..Len(distances) : distances[n] <= distances[m]
        /\ \A m \in 1..(n - 1) : distances[m] > distances[n]

find_nearest_zone(source_row, target_zones) ==
    IF target_zones = <<>>
    THEN None
    ELSE LET source_coords == <<source_row.latitude, source_row.longitude>>
             target_coords == [t \in 1..Len(target_zones) |->
                 <<target_zones[t].latitude, target_zones[t].longitude>>]
             distances == [t \in 1..Len(target_zones) |->
                 euclidean(source_coords, target_coords[t])]
             nearest_index == argmin(distances)
         IN target_zones[nearest_index]

----------------------------------------------------------------------------
(* The two passes.                                                         *)

\* int(capacity * fraction) for the fraction num/den: Python's int truncates
\* toward zero.  (The doubles 0.4 and 0.2 lie just above 2/5 and 1/5, and the
\* product rounds to the exact multiple when there is one.)
IntOfProduct(capacity, num, den) ==
    IF capacity >= 0
    THEN (capacity * num) \div den
    ELSE -(((-capacity) * num) \div den)

\* int() replaced by rounding up.
CeilOfProduct(capacity, num, den) == -((-(capacity * num)) \div den)

Pass1EventCeil(row, nearest_critical) ==
    [from |-> row.county_name,
     to |-> nearest_critical.county_name,
     firefighters |-> CeilOfProduct(row.firefighter_capacity, 2, 5),
     water |-> CeilOfProduct(row.water_tank_capacity, 2, 5),
     from_zone |-> "Safe Zone",
     to_zone |-> "Critical Day 1"]

\* move_fraction = 0.4
Pass1Event(row, nearest_critical) ==
    [from |-> row.county_name,
     to |-> nearest_critical.county_name,
     firefighters |-> IntOfProduct(row.firefighter_capacity, 2, 5),
     water |-> IntOfProduct(row.water_tank_capacity, 2, 5),
     from_zone |-> "Safe Zone",
     to_zone |-> "Critical Day 1"]

Pass2EventSwapped(row, nearest_critical_2) ==
    [from |-> row.county_name,
     to |-> nearest_critical_2.county_name,
     firefighters |-> IntOfProduct(row.water_tank_capacity, 1, 5),
     water |-> IntOfProduct(row.firefighter_capacity, 1, 5),
     from_zone |-> "At Risk Day 3",
     to_zone |-> "Critical Day 2"]

\* move_fraction = 0.2
Pass2Event(row, nearest_critical_2) ==
    [from |-> row.county_name,
     to |-> nearest_critical_2.county_name,
     firefighters |-> IntOfProduct(row.firefighter_capacity, 1, 5),
     water |-> IntOfProduct(row.water_tank_capacity, 1, 5),
     from_zone |-> "At Risk Day 3",
     to_zone |-> "Critical Day 2"]

\* results.append placing the event at the head of the list.
prepend(list, event) == <<event>> \o list

\* results.append
append(list, event) == Append(list, event)

NotPrinted == [printed |-> FALSE, text |-> <<>>]

\* The state of a script that has just loaded the table (lines 7-32).
Loaded(file) ==
    /\ df = read_csv(file)
    /\ pc = "pass1"
    /\ idx = 1
    /\ results = <<>>
    /\ stdout = NotPrinted

NoError == "none"
NoSample == [produced |-> FALSE]
NoIO == [list_files |-> 0, open |-> 0, read |-> 0]

PipelineIdle ==
    /\ cfg = [idle |-> TRUE]
    /\ shards = <<>>
    /\ gd_pc = "idle"
    /\ gd_error = NoError
    /\ io = NoIO
    /\ pos = <<>>
    /\ sample = NoSample
    /\ corrupt = <<>>
    /\ batch = <<>>
    /\ delivered = {}
    /\ batches = 0
    /\ batch_sizes = <<>>
    /\ epochs = <<>>
    /\ rng = 0

CallIdle ==
    /\ data_stats = DATA_STATS
    /\ call = NoCall
    /\ call_pc = "idle"
    /\ ret = NoReturn

HttpIdle ==
    /\ http_pc = "idle"
    /\ request = [route |-> "none"]
    /\ response = [answered |-> FALSE]
    /\ process = [ran |-> FALSE]
    /\ map_file = FALSE
    /\ served = 0

NearestIdle ==
    /\ nz_pc = "idle"
    /\ nz_source = None
    /\ nz_targets = <<>>
    /\ nz_result = None

Init ==
    /\ IsTable(csv, MaxZones)
    /\ Loaded(csv)
    /\ run = 1
    /\ prev_stdout = NotPrinted
    /\ NearestIdle
    /\ PipelineIdle
    /\ HttpIdle
    /\ CallIdle

\* Pass1Iter taking any of the targets at minimal distance, as an iteration
\* over an unordered collection of targets would.
Pass1IterAnyNearest ==
    /\ pc = "pass1"
    /\ idx <= Len(safe_zones)
    /\ LET row == safe_zones[idx]
       IN IF critical_zones_1 = <<>>
          THEN results' = results
          ELSE \E t \in 1..Len(critical_zones_1) :
                 /\ \A u \in 1..Len(critical_zones_1) :
                        euclidean(<<row.latitude, row.longitude>>,
                                  <<critical_zones_1[t].latitude,
                                    critical_zones_1[t].longitude>>)
                        <= euclidean(<<row.latitude, row.longitude>>,
                                     <<critical_zones_1[u].latitude,
                                       critical_zones_1[u].longitude>>)
                 /\ results' = append(results, Pass1Event(row, critical_zones_1[t]))
    /\ idx' = idx + 1
    /\ UNCHANGED <<csv, df, pc, stdout, run, prev_stdout, nearest_vars, pipe_vars, call_vars, http_vars>>

\* Pass1Iter booking the transfer in the table: the capacities moved are
\* taken from the source's row.
Pass1IterUpdating ==
    /\ pc = "pass1"
    /\ idx <= Len(safe_zones)
    /\ LET row == safe_zones[idx]
           nearest_critical == find_nearest_zone(row, critical_zones_1)
       IN IF nearest_critical # None
          THEN /\ results' = append(results, Pass1Event(row, nearest_critical))
               /\ df' = [k \in DOMAIN df |->
                            IF df[k].county_name = row.county_name
                            THEN [df[k] EXCEPT
                                     !.firefighter_capacity =
                                         @ - Pass1Event(row, nearest_critical).firefighters,
                                     !.water_tank_capacity =
                                         @ - Pass1Event(row, nearest_critical).water]
                            ELSE df[k]]
          ELSE UNCHANGED <<results, df>>
    /\ idx' = idx + 1
    /\ UNCHANGED <<csv, pc, stdout, run, prev_stdout, nearest_vars, pipe_vars, call_vars, http_vars>>

\* One iteration of `for idx, row in safe_zones.iterrows()`.
Pass1Iter ==
    /\ pc = "pass1"
    /\ idx <= Len(safe_zones)
    /\ LET row == safe_zones[idx]
           nearest_critical == find_nearest_zone(row, critical_zones_1)
       IN results' = IF nearest_critical # None
                     THEN append(results, Pass1Event(row, nearest_critical))
                     ELSE results
    /\ idx' = idx + 1
    /\ UNCHANGED <<csv, df, pc, stdout, run, prev_stdout, nearest_vars, pipe_vars, call_vars, http_vars>>

\* The first loop is exhausted; the second starts.
Pass1Exit ==
    /\ pc = "pass1"
    /\ idx > Len(safe_zones)
    /\ pc' = "pass2"
    /\ idx' = 1
    /\ UNCHANGED <<csv, df, results, stdout, run, prev_stdout, nearest_vars, pipe_vars, call_vars, http_vars>>

\* Pass2Iter with a find_nearest_zone that lacks its check of an empty frame:
\* np.argmin raises on the empty list and the script dies in the loop.
Pass2IterRaising ==
    /\ pc = "pass2"
    /\ idx <= Len(at_risk_zones)
    /\ critical_zones_2 # <<>>
    /\ LET row == at_risk_zones[idx]
           nearest_critical_2 == find_nearest_zone(row, critical_zones_2)
       IN results' = append(results, Pass2Event(row, nearest_critical_2))
    /\ idx' = idx + 1
    /\ UNCHANGED <<csv, df, pc, stdout, run, prev_stdout, nearest_vars, pipe_vars, call_vars, http_vars>>

\* One iteration of `for idx, row in at_risk_zones.iterrows()`.
Pass2Iter ==
    /\ pc = "pass2"
    /\ idx <= Len(at_risk_zones)
    /\ LET row == at_risk_zones[idx]
           nearest_critical_2 == find_nearest_zone(row, critical_zones_2)
       IN results' = IF nearest_critical_2 # None
                     THEN append(results, Pass2Event(row, nearest_critical_2))
                     ELSE results
    /\ idx' = idx + 1
    /\ UNCHANGED <<csv, df, pc, stdout, run, prev_stdout, nearest_vars, pipe_vars, call_vars, http_vars>>

\* The second loop is exhausted.
Pass2Exit ==
    /\ pc = "pass2"
    /\ idx > Len(at_risk_zones)
    /\ pc' = "print"
    /\ UNCHANGED <<csv, df, idx, results, stdout, run, prev_stdout, nearest_vars, pipe_vars, call_vars, http_vars>>

\* print(json.dumps(results)); the script ends.
PrintResults ==
    /\ pc = "print"
    /\ stdout' = [printed |-> TRUE, text |-> results]
    /\ pc' = "done"
    /\ UNCHANGED <<csv, df, idx, results, run, prev_stdout, nearest_vars, pipe_vars, call_vars, http_vars>>

\* The script is run again on the same file (a fresh process: it loads the
\* table again and starts with an empty results list).
Rerun ==
    /\ pc = "done"
    /\ run < MaxRuns
    /\ run' = run + 1
    /\ prev_stdout' = stdout
    /\ df' = read_csv(csv)
    /\ pc' = "pass1"
    /\ idx' = 1
    /\ results' = <<>>
    /\ stdout' = NotPrinted
    /\ UNCHANGED <<csv, nearest_vars, pipe_vars, call_vars, http_vars>>

Next ==
    \/ Pass1Iter
    \/ Pass1Exit
    \/ Pass2Iter
    \/ Pass2Exit
    \/ PrintResults

Spec == Init /\ [][Next]_vars

InitRerun ==
    /\ IsTable(csv, RerunZones)
    /\ Loaded(csv)
    /\ run = 1
    /\ prev_stdout = NotPrinted
    /\ NearestIdle
    /\ PipelineIdle
    /\ HttpIdle
    /\ CallIdle

NextRerun ==
    \/ Pass1Iter
    \/ Pass1Exit
    \/ Pass2Iter
    \/ Pass2Exit
    \/ PrintResults
    \/ Rerun

SpecRerun == InitRerun /\ [][NextRerun]_vars

----------------------------------------------------------------------------
(* find_nearest_zone on its own: a source and a frame of targets on a grid.*)

Coords == 0..MaxCoord

\* A row of a call: only the columns find_nearest_zone and its callers read.
PlainRow(k, lat, lon) ==
    [county_name |-> ZoneNames[k], latitude |-> lat, longitude |-> lon]

\* frame is a frame of at most n target rows on the grid.
IsTargetFrame(frame, n) ==
    \E m \in 0..n : \E at \in [1..m -> Coords \X Coords] :
        frame = [k \in 1..m |-> PlainRow(k, at[k][1], at[k][2])]

ReallocIdle ==
    /\ csv = <<>>
    /\ Loaded(csv)
    /\ run = 1
    /\ prev_stdout = NotPrinted

InitNearest ==
    /\ ReallocIdle
    /\ nz_pc = "called"
    /\ nz_source \in { PlainRow(MaxTargets + 1, c[1], c[2]) : c \in Coords \X Coords }
    /\ IsTargetFrame(nz_targets, MaxTargets)
    /\ nz_result = None
    /\ PipelineIdle
    /\ HttpIdle
    /\ CallIdle

\* The call returns.
FindNearestReturn ==
    /\ nz_pc = "called"
    /\ nz_result' = find_nearest_zone(nz_source, nz_targets)
    /\ nz_pc' = "returned"
    /\ UNCHANGED <<nz_source, nz_targets, realloc_vars, pipe_vars, call_vars, http_vars>>

NextNearest == FindNearestReturn

SpecNearest == InitNearest /\ [][NextNearest]_vars

----------------------------------------------------------------------------
(* The tile data pipeline: get_dataset and the elements pulled from it.    *)

ErrNormalizeRescale == "ValueError: Cannot have both normalize and rescale."
ErrBothCrops == "ValueError: Cannot have both random_crop and center_crop be True"
ErrCentralFraction == "ValueError: central_fraction must be within (0, 1]"
ErrNoFilesMatched == "InvalidArgumentError: No files matched pattern"
ErrCropSize == "InvalidArgumentError: Need value.shape >= size"

\* The arguments of a get_dataset call; the tile side and the sample side are
\* independent arguments, so the sample side may exceed the tile side.  The
\* shapes below are those of a call with num_in_channels = 12, the number of
\* INPUT_FEATURES; SpecParse varies num_in_channels.
Configs ==
    [data_size : 1..MaxDataSize,
     sample_size : 1..(MaxDataSize + 1),
     clip_and_normalize : BOOLEAN,
     clip_and_rescale : BOOLEAN,
     random_crop : BOOLEAN,
     center_crop : BOOLEAN]

\* tf.image.central_crop(img, sample_size / n) on a tile of side n: the crop
\* starts at int((n - n * fraction) / 2) and keeps n - 2 * start cells
\* (fraction 1.0 returns the tile as it is).
central_crop_start(n, sample_size) ==
    IF sample_size = n THEN 0 ELSE (n - sample_size) \div 2

central_crop_size(n, sample_size) == n - 2 * central_crop_start(n, sample_size)

\* The <<row, column>> offsets tf.image.random_crop may draw on a tile of
\* side n for a crop of side sample_size.
random_crop_offsets(n, sample_size) ==
    (0..(n - sample_size)) \X (0..(n - sample_size))

\* crop_offsets of a pipeline that draws the offset of every crop at random.
crop_offsets_drawn(c) == random_crop_offsets(c.data_size, c.sample_size)

\* The offsets the crop of one record may use under a configuration.
crop_offsets(c) ==
    IF c.random_crop
    THEN random_crop_offsets(c.data_size, c.sample_size)
    ELSE IF c.center_crop
         THEN { <<central_crop_start(c.data_size, c.sample_size),
                  central_crop_start(c.data_size, c.sample_size)>> }
         ELSE { <<0, 0>> }

\* parse_fn_trace_error of a _parse_fn without its check of the crop flags.
parse_fn_trace_error_unchecked(c) ==
    IF c.center_crop /\ c.sample_size > c.data_size
    THEN ErrCentralFraction
    ELSE NoError

\* What tracing _parse_fn raises when dataset.map wraps it: its own check of
\* the crop flags, then central_crop's check of the constant fraction.
parse_fn_trace_error(c) ==
    IF c.random_crop /\ c.center_crop
    THEN ErrBothCrops
    ELSE IF c.center_crop /\ c.sample_size > c.data_size
         THEN ErrCentralFraction
         ELSE NoError

\* The side of the tensors _parse_fn returns: the decoded tile has side
\* data_size; random_crop slices sample_size cells, central_crop keeps what
\* its start leaves.
parsed_side(c) ==
    LET decoded == c.data_size
        after_random == IF c.random_crop THEN c.sample_size ELSE decoded
    IN IF c.center_crop
       THEN central_crop_size(after_random, c.sample_size)
       ELSE after_random

\* _parse_fn on record rec of shard s with the crop at offset: the shapes of
\* (input_img, output_img, weights); weights has the shape of output_img.
parse_fn(c, s, rec, offset) ==
    [produced |-> TRUE,
     shard |-> s,
     record |-> rec,
     offset |-> offset,
     input_hw |-> <<parsed_side(c), parsed_side(c)>>,
     output_hw |-> <<parsed_side(c), parsed_side(c)>>,
     weights_hw |-> <<parsed_side(c), parsed_side(c)>>]

----------------------------------------------------------------------------
(* The helpers of the pipeline called on their own.                        *)

\* The characters keys are drawn from: letters of both cases, a separator
\* and a digit.
KeyChars == {"t", "m", "x", "D", "_", "3"}

InitBaseKey ==
    /\ ReallocIdle
    /\ NearestIdle
    /\ PipelineIdle
    /\ HttpIdle
    /\ data_stats = DATA_STATS
    /\ \E n \in 0..MaxKeyLen : \E key \in [1..n -> KeyChars] :
           call = [fn |-> "_get_base_key", key |-> key]
    /\ call_pc = "called"
    /\ ret = NoReturn

\* The call returns or raises.
GetBaseKeyReturn ==
    /\ call_pc = "called"
    /\ call.fn = "_get_base_key"
    /\ ret' = _get_base_key(call.key)
    /\ call_pc' = "returned"
    /\ UNCHANGED <<data_stats, call, realloc_vars, nearest_vars, pipe_vars, http_vars>>

NextBaseKey == GetBaseKeyReturn

SpecBaseKey == InitBaseKey /\ [][NextBaseKey]_vars

\* Variants of the statistics table: the table of the source, the table
\* with every clip range empty, with every deviation zero, and with one entry
\* left out.
FlatRange(table) ==
    [k \in DOMAIN table |->
        <<min_clip(table[k]), min_clip(table[k]), mean(table[k]), std(table[k])>>]

FlatStd(table) ==
    [k \in DOMAIN table |->
        <<min_clip(table[k]), max_clip(table[k]), mean(table[k]), 0>>]

Without(table, key) == [k \in DOMAIN table \ {key} |-> table[k]]

StatTables ==
    {DATA_STATS, FlatRange(DATA_STATS), FlatStd(DATA_STATS),
     Without(DATA_STATS, INPUT_FEATURES[11]),
     Without(DATA_STATS, OUTPUT_FEATURES[1])}

\* The keys the transforms are called with: the features, a time-indexed
\* key, a name without statistics and a key without a leading letter.
TransformKeys ==
    { INPUT_FEATURES[i] : i \in DOMAIN INPUT_FEATURES }
    \cup { OUTPUT_FEATURES[i] : i \in DOMAIN OUTPUT_FEATURES }
    \cup { INPUT_FEATURES[5] \o <<"_", "3">>, <<"x", "y", "z">>, <<"_", "3">> }

\* A distance that puts a value far outside every clip range.
FarOut == 1000 * 1000 * 1000

\* Cell values around a statistic: far below, at and next to the clip
\* bounds, at the mean, far above.
InputsAround(stat) ==
    { min_clip(stat) - FarOut, min_clip(stat) - 1, min_clip(stat), min_clip(stat) + 1,
      mean(stat),
      max_clip(stat) - 1, max_clip(stat), max_clip(stat) + 1, max_clip(stat) + FarOut }

InputsFor(key) ==
    LET base == _get_base_key(key)
    IN IF ~base.raised /\ base.value \in DOMAIN DATA_STATS
       THEN InputsAround(DATA_STATS[base.value])
       ELSE InputsAround(<<0, Unit, 0, Unit>>)

InitTransform ==
    /\ ReallocIdle
    /\ NearestIdle
    /\ PipelineIdle
    /\ HttpIdle
    /\ data_stats \in StatTables
    /\ \E fn \in {"_clip_and_rescale", "_clip_and_normalize"} :
         \E key \in TransformKeys : \E x \in InputsFor(key) :
           call = [fn |-> fn, key |-> key, inputs |-> x]
    /\ call_pc = "called"
    /\ ret = NoReturn

ClipAndRescaleReturn ==
    /\ call_pc = "called"
    /\ call.fn = "_clip_and_rescale"
    /\ ret' = _clip_and_rescale(call.inputs, call.key)
    /\ call_pc' = "returned"
    /\ UNCHANGED <<data_stats, call, realloc_vars, nearest_vars, pipe_vars, http_vars>>

ClipAndNormalizeReturn ==
    /\ call_pc = "called"
    /\ call.fn = "_clip_and_normalize"
    /\ ret' = _clip_and_normalize(call.inputs, call.key)
    /\ call_pc' = "returned"
    /\ UNCHANGED <<data_stats, call, realloc_vars, nearest_vars, pipe_vars, http_vars>>

NextTransform == ClipAndRescaleReturn \/ ClipAndNormalizeReturn

SpecTransform == InitTransform /\ [][NextTransform]_vars

----------------------------------------------------------------------------
(* _parse_fn cell by cell.  A tensor is its shape <<height, width,         *)
(* channels>> and its cells, indexed from 0.  A cell carries its value and *)
(* where the value was decoded from: the feature and the <<row, column>>   *)
(* of the tile.                                                            *)

ErrParseExample == "InvalidArgumentError: Can't parse serialized Example"

Tensor(shape, cell) == [shape |-> shape, cell |-> cell]

Indices(shape) == (0..(shape[1] - 1)) \X (0..(shape[2] - 1)) \X (0..(shape[3] - 1))

\* _get_features_dict: one FixedLenFeature of shape [sample_size, sample_size]
\* for each name of the set of features.
_get_features_dict(sample_size, features) ==
    [key \in { features[i] : i \in DOMAIN features } |-> <<sample_size, sample_size>>]

\* tf.io.parse_single_example fails when a key of the dictionary is absent
\* from the example or its value list does not fill the declared shape.
parse_single_example_fails(example_proto, features_dict) ==
    \E key \in DOMAIN features_dict :
        \/ key \notin DOMAIN example_proto
        \/ Len(example_proto[key]) # features_dict[key][1] * features_dict[key][2]

\* tf.io.parse_single_example: each value list reshaped row by row.
parse_single_example(example_proto, features_dict) ==
    [key \in DOMAIN features_dict |->
        [p \in (0..(features_dict[key][1] - 1)) \X (0..(features_dict[key][2] - 1)) |->
            [feature |-> key, at |-> p,
             value |-> example_proto[key][p[1] * features_dict[key][2] + p[2] + 1]]]]

\* Lines 261-270: inputs_list, one grid for each input feature.
inputs_list(features, clip_and_normalize, clip_and_rescale) ==
    [i \in DOMAIN INPUT_FEATURES |->
        LET key == INPUT_FEATURES[i]
        IN [p \in DOMAIN features[key] |->
               [features[key][p] EXCEPT !.value =
                   IF clip_and_normalize
                   THEN _clip_and_normalize(@, key).value
                   ELSE IF clip_and_rescale
                        THEN _clip_and_rescale(@, key).value
                        ELSE Raw(@)]]]

\* inputs_list_error with the statistics looked up under clip_and_normalize
\* only.
inputs_list_error_normalize_only(clip_and_normalize, clip_and_rescale) ==
    LET outcome(i) == IF clip_and_normalize
                      THEN _clip_and_normalize(0, INPUT_FEATURES[i])
                      ELSE Returned(0)
        failing == { i \in DOMAIN INPUT_FEATURES : outcome(i).raised }
    IN IF failing = {}
       THEN NoError
       ELSE outcome(CHOOSE i \in failing : \A j \in failing : i <= j).error

\* What building inputs_list raises: the exception of the first feature whose
\* transform raises.
inputs_list_error(clip_and_normalize, clip_and_rescale) ==
    LET outcome(i) == IF clip_and_normalize
                      THEN _clip_and_normalize(0, INPUT_FEATURES[i])
                      ELSE IF clip_and_rescale
                           THEN _clip_and_rescale(0, INPUT_FEATURES[i])
                           ELSE Returned(0)
        failing == { i \in DOMAIN INPUT_FEATURES : outcome(i).raised }
    IN IF failing = {}
       THEN NoError
       ELSE outcome(CHOOSE i \in failing : \A j \in failing : i <= j).error

\* outputs_list with the rescale transform applied to each output feature.
outputs_list_rescaled(features) ==
    [i \in DOMAIN OUTPUT_FEATURES |->
        LET key == OUTPUT_FEATURES[i]
        IN [p \in DOMAIN features[key] |->
               [features[key][p] EXCEPT !.value =
                   IF _clip_and_rescale(@, key).raised
                   THEN Raw(@)
                   ELSE _clip_and_rescale(@, key).value]]]

\* Line 275: outputs_list, the decoded grid of each output feature.
outputs_list(features) ==
    [i \in DOMAIN OUTPUT_FEATURES |->
        LET key == OUTPUT_FEATURES[i]
        IN [p \in DOMAIN features[key] |->
               [features[key][p] EXCEPT !.value = Raw(@)]]]

\* tf.stack(list, axis=0) then tf.transpose(stacked, [1, 2, 0]): channel c of
\* the image is grid c + 1 of the list.
stack_and_transpose(list, size) ==
    Tensor(<<size, size, Len(list)>>,
           [ix \in Indices(<<size, size, Len(list)>>) |->
               list[ix[3] + 1][<<ix[1], ix[2]>>]])

\* tf.concat([a, b], axis=2)
concat(a, b) ==
    Tensor(<<a.shape[1], a.shape[2], a.shape[3] + b.shape[3]>>,
           [ix \in Indices(<<a.shape[1], a.shape[2], a.shape[3] + b.shape[3]>>) |->
               IF ix[3] < a.shape[3]
               THEN a.cell[ix]
               ELSE b.cell[<<ix[1], ix[2], ix[3] - a.shape[3]>>]])

\* tf.slice(value, begin, size)
slice(value, begin, size) ==
    Tensor(size, [ix \in Indices(size) |->
                     value.cell[<<ix[1] + begin[1], ix[2] + begin[2], ix[3] + begin[3]>>]])

\* value[:, :, first:last]
channels(value, first, last) ==
    slice(value, <<0, 0, first>>, <<value.shape[1], value.shape[2], last - first>>)

\* tf.image.random_crop(value, size) asserts value.shape >= size and slices
\* at an offset drawn uniformly, in every dimension, from 0..shape - size.
random_crop_fails(shape, size) == \E k \in 1..3 : shape[k] < size[k]

random_crop_begins(shape, size) ==
    (0..(shape[1] - size[1])) \X (0..(shape[2] - size[2])) \X (0..(shape[3] - size[3]))

\* random_crop_input_and_output_images with one crop for the input at the
\* offset drawn and another for the output at the tile's corner.
random_crop_separately(input_img, output_img, sample_size, num_in_channels, num_out_channels, begin) ==
    [input_img |-> slice(input_img, <<begin[1], begin[2], 0>>,
                         <<sample_size, sample_size, input_img.shape[3]>>),
     output_img |-> slice(output_img, <<0, 0, 0>>,
                          <<sample_size, sample_size, output_img.shape[3]>>)]

\* random_crop_input_and_output_images, the offset random_crop drew given.
random_crop_input_and_output_images(input_img, output_img, sample_size, num_in_channels, num_out_channels, begin) ==
    LET combined == concat(input_img, output_img)
        cropped == slice(combined, begin,
                         <<sample_size, sample_size, num_in_channels + num_out_channels>>)
    IN [input_img |-> channels(cropped, 0, num_in_channels),
        output_img |-> channels(cropped, cropped.shape[3] - num_out_channels,
                                cropped.shape[3])]

\* tf.image.central_crop(image, fraction), fraction a Quotient: along a
\* dimension of n cells the crop starts at int((n - n * fraction) / 2) and
\* keeps n - 2 * start cells; fraction 1 returns the image.
central_crop_begin(n, fraction) ==
    IF fraction.num = fraction.den
    THEN 0
    ELSE (n * (fraction.den - fraction.num)) \div (2 * fraction.den)

central_crop_fails(fraction) == fraction.num <= 0 \/ fraction.num > fraction.den

central_crop(image, fraction) ==
    LET top == central_crop_begin(image.shape[1], fraction)
        left == central_crop_begin(image.shape[2], fraction)
    IN slice(image, <<top, left, 0>>,
             <<image.shape[1] - 2 * top, image.shape[2] - 2 * left, image.shape[3]>>)

\* center_crop_input_and_output_images
center_crop_input_and_output_images(input_img, output_img, sample_size) ==
    LET central_fraction == Quotient(sample_size, input_img.shape[1])
    IN [input_img |-> central_crop(input_img, central_fraction),
        output_img |-> central_crop(output_img, central_fraction)]

\* tf.greater_equal(x, 0) on a quotient.
greater_equal_zero(q) == (q.den > 0 /\ q.num >= 0) \/ (q.den < 0 /\ q.num <= 0)

\* The weights with 1 only where the output is positive.
weights_positive(output_img) ==
    Tensor(output_img.shape,
           [ix \in Indices(output_img.shape) |->
               [output_img.cell[ix] EXCEPT
                   !.value = IF greater_equal_zero(@) /\ @.num # 0 THEN 1 ELSE 0]])

\* Line 292: tf.cast(tf.greater_equal(output_img, zeros), tf.int32)
weights_of(output_img) ==
    Tensor(output_img.shape,
           [ix \in Indices(output_img.shape) |->
               [output_img.cell[ix] EXCEPT
                   !.value = IF greater_equal_zero(@) THEN 1 ELSE 0]])

\* Lines 292-294: the three tensors _parse_fn returns.
with_weights(images) ==
    [input_img |-> images.input_img,
     output_img |-> images.output_img,
     weights |-> weights_of(images.output_img)]

\* The values of a FireMask grid, cell after cell: no data, no fire, fire,
\* and a negative value other than -1.
MaskCycle == <<-1, -1, 0, 1, -2>>

\* A well-formed serialized example of tiles of side size: each feature with
\* size * size values, the FireMask following the cycle from position shift,
\* an input feature rising cell by cell from below its clip range.
MkExample(size, shift) ==
    [key \in DOMAIN DATA_STATS |->
        [n \in 1..(size * size) |->
            IF key = OUTPUT_FEATURES[1]
            THEN MaskCycle[((n - 1 + shift) % Len(MaskCycle)) + 1] * Unit
            ELSE min_clip(DATA_STATS[key]) + (n - 2) * Unit]]

\* The examples _parse_fn is called on: well-formed ones, one without its
\* FireMask, one without an input feature, one with a value too many.
Examples(size) ==
    { MkExample(size, shift) : shift \in 0..(Len(MaskCycle) - 1) }
    \cup { Without(MkExample(size, 0), OUTPUT_FEATURES[1]),
           Without(MkExample(size, 0), INPUT_FEATURES[1]),
           [MkExample(size, 0) EXCEPT ![OUTPUT_FEATURES[1]] = Append(@, 0)] }

\* num_in_channels is an argument of its own: the number of input features,
\* one less, one more.
NumInChannels ==
    {Len(INPUT_FEATURES) - 1, Len(INPUT_FEATURES), Len(INPUT_FEATURES) + 1}

ParseTables ==
    {DATA_STATS, Without(DATA_STATS, INPUT_FEATURES[11]),
     Without(DATA_STATS, OUTPUT_FEATURES[1])}

InitParse ==
    /\ ReallocIdle
    /\ NearestIdle
    /\ PipelineIdle
    /\ HttpIdle
    /\ data_stats \in ParseTables
    /\ \E c \in Configs : \E n \in NumInChannels : \E example \in Examples(c.data_size) :
           call = [fn |-> "_parse_fn",
                   example_proto |-> example,
                   data_size |-> c.data_size,
                   sample_size |-> c.sample_size,
                   num_in_channels |-> n,
                   clip_and_normalize |-> c.clip_and_normalize,
                   clip_and_rescale |-> c.clip_and_rescale,
                   random_crop |-> c.random_crop,
                   center_crop |-> c.center_crop]
    /\ call_pc = "called"
    /\ ret = NoReturn

\* Lines 254-283: the crop flags checked, the example decoded, the inputs
\* transformed, inputs and outputs stacked into images.
ParseAndStack ==
    /\ call_pc = "called"
    /\ call.fn = "_parse_fn"
    /\ LET features_dict == _get_features_dict(call.data_size,
                                                INPUT_FEATURES \o OUTPUT_FEATURES)
           features == parse_single_example(call.example_proto, features_dict)
           raises == IF call.random_crop /\ call.center_crop
                     THEN ErrBothCrops
                     ELSE IF parse_single_example_fails(call.example_proto, features_dict)
                          THEN ErrParseExample
                          ELSE inputs_list_error(call.clip_and_normalize,
                                                 call.clip_and_rescale)
       IN IF raises # NoError
          THEN /\ ret' = Raised(raises)
               /\ call_pc' = "raised"
          ELSE /\ ret' = Returned(
                      [input_img |-> stack_and_transpose(
                           inputs_list(features, call.clip_and_normalize,
                                       call.clip_and_rescale), call.data_size),
                       output_img |-> stack_and_transpose(
                           outputs_list(features), call.data_size)])
               /\ call_pc' = "stacked"
    /\ UNCHANGED <<data_stats, call, realloc_vars, nearest_vars, pipe_vars, http_vars>>

\* Lines 285-294: the crop the flags select, then the weights.
CropAndWeigh ==
    /\ call_pc = "stacked"
    /\ call.fn = "_parse_fn"
    /\ LET input_img == ret.value.input_img
           output_img == ret.value.output_img
           combined_shape == concat(input_img, output_img).shape
           crop_size == <<call.sample_size, call.sample_size, call.num_in_channels + 1>>
       IN IF call.random_crop
          THEN IF random_crop_fails(combined_shape, crop_size)
               THEN /\ ret' = Raised(ErrCropSize)
                    /\ call_pc' = "raised"
               ELSE /\ \E begin \in random_crop_begins(combined_shape, crop_size) :
                         ret' = Returned(with_weights(
                                    random_crop_input_and_output_images(
                                        input_img, output_img, call.sample_size,
                                        call.num_in_channels, 1, begin)))
                    /\ call_pc' = "returned"
          ELSE IF call.center_crop
               THEN IF central_crop_fails(Quotient(call.sample_size, input_img.shape[1]))
                    THEN /\ ret' = Raised(ErrCentralFraction)
                         /\ call_pc' = "raised"
                    ELSE /\ ret' = Returned(with_weights(
                                       center_crop_input_and_output_images(
                                           input_img, output_img, call.sample_size)))
                         /\ call_pc' = "returned"
               ELSE /\ ret' = Returned(with_weights(
                                  [input_img |-> input_img, output_img |-> output_img]))
                    /\ call_pc' = "returned"
    /\ UNCHANGED <<data_stats, call, realloc_vars, nearest_vars, pipe_vars, http_vars>>

NextParse == ParseAndStack \/ CropAndWeigh

SpecParse == InitParse /\ [][NextParse]_vars

----------------------------------------------------------------------------
(* get_dataset: the pipeline built, then iterated by its consumer.  The    *)
(* consumers of the repository (model.fit, loops over the dataset) do not  *)
(* catch what the iteration raises, so an exception ends the reading.      *)

\* The configurations of SpecPipeline batch every sample on its own; SpecRead
\* varies the batch size.
InitPipeline ==
    /\ ReallocIdle
    /\ NearestIdle
    /\ \E c \in Configs : cfg = c @@ [batch_size |-> 1]
    /\ \E m \in 0..MaxShards : shards \in [1..m -> 1..MaxRecords]
    /\ gd_pc = "check"
    /\ gd_error = NoError
    /\ io = NoIO
    /\ pos = [s \in DOMAIN shards |-> 0]
    /\ sample = NoSample
    /\ corrupt = <<>>
    /\ batch = <<>>
    /\ delivered = {}
    /\ batches = 0
    /\ batch_sizes = <<>>
    /\ epochs = <<>>
    /\ rng = 0
    /\ CallIdle
    /\ HttpIdle

\* CheckTransforms with the check placed after the file listing.
CheckTransformsAfterListing ==
    /\ gd_pc = "check"
    /\ IF cfg.clip_and_normalize /\ cfg.clip_and_rescale
       THEN /\ io' = [io EXCEPT !.list_files = @ + 1]
            /\ gd_error' = ErrNormalizeRescale
            /\ gd_pc' = "raised"
       ELSE /\ gd_pc' = "list"
            /\ UNCHANGED <<io, gd_error>>
    /\ UNCHANGED <<cfg, shards, pos, sample, corrupt, batch, delivered, batches, batch_sizes, epochs, rng, realloc_vars, nearest_vars, call_vars, http_vars>>

\* get_dataset's first statement.
CheckTransforms ==
    /\ gd_pc = "check"
    /\ IF cfg.clip_and_normalize /\ cfg.clip_and_rescale
       THEN /\ gd_error' = ErrNormalizeRescale
            /\ gd_pc' = "raised"
       ELSE /\ gd_pc' = "list"
            /\ UNCHANGED gd_error
    /\ UNCHANGED <<cfg, shards, io, pos, sample, corrupt, batch, delivered, batches, batch_sizes, epochs, rng, realloc_vars, nearest_vars, call_vars, http_vars>>

\* tf.data.Dataset.list_files: executed eagerly, it globs the pattern when it
\* is called and raises when nothing matches.
ListFiles ==
    /\ gd_pc = "list"
    /\ io' = [io EXCEPT !.list_files = @ + 1]
    /\ IF shards = <<>>
       THEN /\ gd_error' = ErrNoFilesMatched
            /\ gd_pc' = "raised"
       ELSE /\ gd_pc' = "interleave"
            /\ UNCHANGED gd_error
    /\ UNCHANGED <<cfg, shards, pos, sample, corrupt, batch, delivered, batches, batch_sizes, epochs, rng, realloc_vars, nearest_vars, call_vars, http_vars>>

\* dataset.interleave(TFRecordDataset) and prefetch: no shard is opened until
\* an element is pulled.
Interleave ==
    /\ gd_pc = "interleave"
    /\ gd_pc' = "map"
    /\ UNCHANGED <<cfg, shards, gd_error, io, pos, sample, corrupt, batch, delivered, batches, batch_sizes, epochs, rng, realloc_vars, nearest_vars, call_vars, http_vars>>

\* dataset.map(_parse_fn): the function is traced when map is called, and
\* what the trace raises leaves get_dataset.
MapParse ==
    /\ gd_pc = "map"
    /\ IF parse_fn_trace_error(cfg) # NoError
       THEN /\ gd_error' = parse_fn_trace_error(cfg)
            /\ gd_pc' = "raised"
       ELSE /\ gd_pc' = "batch"
            /\ UNCHANGED gd_error
    /\ UNCHANGED <<cfg, shards, io, pos, sample, corrupt, batch, delivered, batches, batch_sizes, epochs, rng, realloc_vars, nearest_vars, call_vars, http_vars>>

\* dataset.batch, prefetch, return: the caller holds the dataset.
BatchAndReturn ==
    /\ gd_pc = "batch"
    /\ gd_pc' = "iterating"
    /\ UNCHANGED <<cfg, shards, gd_error, io, pos, sample, corrupt, batch, delivered, batches, batch_sizes, epochs, rng, realloc_vars, nearest_vars, call_vars, http_vars>>

\* The serialized example of record rec of shard s: well-formed unless the
\* record is corrupt, then without its FireMask or with a value too many.
RecordExample(s, rec) ==
    LET example == MkExample(cfg.data_size, 0)
    IN IF <<s, rec>> \notin DOMAIN corrupt
       THEN example
       ELSE IF corrupt[<<s, rec>>] = "missing_key"
            THEN Without(example, OUTPUT_FEATURES[1])
            ELSE [example EXCEPT ![INPUT_FEATURES[1]] = Append(@, 0)]

\* What parsing a record raises when the element is computed: the decoding
\* of a malformed example fails, and random_crop asserts that the tile is at
\* least as large as the crop.
parse_fn_run_error(c, example_proto) ==
    IF parse_single_example_fails(
           example_proto,
           _get_features_dict(c.data_size, INPUT_FEATURES \o OUTPUT_FEATURES))
    THEN ErrParseExample
    ELSE IF c.random_crop /\ c.sample_size > c.data_size
         THEN ErrCropSize
         ELSE NoError

\* dataset.batch gathers a sample: a full batch is delivered.
Gather(s, rec) ==
    IF Len(batch) + 1 = cfg.batch_size
    THEN /\ delivered' = delivered \cup { batch[k] : k \in DOMAIN batch } \cup {<<s, rec>>}
         /\ batches' = batches + 1
         /\ batch_sizes' = Append(batch_sizes, Len(batch) + 1)
         /\ batch' = <<>>
    ELSE /\ batch' = Append(batch, <<s, rec>>)
         /\ UNCHANGED <<delivered, batches, batch_sizes>>

\* NextElement dropping a record that fails to parse and going on, as a
\* dataset with errors ignored would.
NextElementSkipping(s) ==
    /\ gd_pc = "iterating"
    /\ pos[s] < shards[s]
    /\ io' = [io EXCEPT !.open = @ + (IF pos[s] = 0 THEN 1 ELSE 0),
                        !.read = @ + 1]
    /\ pos' = [pos EXCEPT ![s] = @ + 1]
    /\ IF parse_fn_run_error(cfg, RecordExample(s, pos[s] + 1)) # NoError
       THEN UNCHANGED <<gd_error, gd_pc, sample, batch, delivered, batches, batch_sizes, rng>>
       ELSE /\ \E offset \in crop_offsets(cfg) :
                   sample' = parse_fn(cfg, s, pos[s] + 1, offset)
            /\ rng' = rng + (IF cfg.random_crop THEN 1 ELSE 0)
            /\ Gather(s, pos[s] + 1)
            /\ UNCHANGED <<gd_error, gd_pc>>
    /\ UNCHANGED <<cfg, shards, corrupt, epochs, realloc_vars, nearest_vars, call_vars, http_vars>>

\* The consumer pulls: the interleave reads the next record of shard s,
\* opening the shard at its first record, the map parses it and the batch
\* gathers the sample.  An exception of the map leaves the iteration: the
\* samples gathered for the unfinished batch are lost with it.
NextElement(s) ==
    /\ gd_pc = "iterating"
    /\ pos[s] < shards[s]
    /\ io' = [io EXCEPT !.open = @ + (IF pos[s] = 0 THEN 1 ELSE 0),
                        !.read = @ + 1]
    /\ pos' = [pos EXCEPT ![s] = @ + 1]
    /\ IF parse_fn_run_error(cfg, RecordExample(s, pos[s] + 1)) # NoError
       THEN /\ gd_error' = parse_fn_run_error(cfg, RecordExample(s, pos[s] + 1))
            /\ gd_pc' = "failed"
            /\ batch' = <<>>
            /\ UNCHANGED <<sample, delivered, batches, batch_sizes, rng>>
       ELSE /\ \E offset \in crop_offsets(cfg) :
                   sample' = parse_fn(cfg, s, pos[s] + 1, offset)
            /\ rng' = rng + (IF cfg.random_crop THEN 1 ELSE 0)
            /\ Gather(s, pos[s] + 1)
            /\ UNCHANGED <<gd_error, gd_pc>>
    /\ UNCHANGED <<cfg, shards, corrupt, epochs, realloc_vars, nearest_vars, call_vars, http_vars>>

\* EndOfSequence of a batch with drop_remainder=True: the samples gathered
\* last are dropped when they do not fill a batch.
EndOfSequenceDropRemainder ==
    /\ gd_pc = "iterating"
    /\ \A s \in DOMAIN shards : pos[s] = shards[s]
    /\ gd_pc' = "exhausted"
    /\ batch' = <<>>
    /\ UNCHANGED <<cfg, shards, gd_error, io, pos, sample, corrupt, delivered, batches, batch_sizes, epochs, rng, realloc_vars, nearest_vars, call_vars, http_vars>>

\* Every shard is read to its end: the samples gathered last are delivered
\* as a smaller batch and the sequence ends.
EndOfSequence ==
    /\ gd_pc = "iterating"
    /\ \A s \in DOMAIN shards : pos[s] = shards[s]
    /\ gd_pc' = "exhausted"
    /\ delivered' = delivered \cup { batch[k] : k \in DOMAIN batch }
    /\ batches' = batches + (IF batch = <<>> THEN 0 ELSE 1)
    /\ batch_sizes' = IF batch = <<>> THEN batch_sizes ELSE Append(batch_sizes, Len(batch))
    /\ batch' = <<>>
    /\ UNCHANGED <<cfg, shards, gd_error, io, pos, sample, corrupt, epochs, rng, realloc_vars, nearest_vars, call_vars, http_vars>>

NextPipeline ==
    \/ CheckTransforms
    \/ ListFiles
    \/ Interleave
    \/ MapParse
    \/ BatchAndReturn
    \/ \E s \in DOMAIN shards : NextElement(s)
    \/ EndOfSequence

SpecPipeline == InitPipeline /\ [][NextPipeline]_vars

\* get_dataset without a transform or a crop, on shards of which one record
\* may be malformed.
ReadConfigs ==
    { c \in Configs : /\ c.sample_size = c.data_size
                      /\ ~c.clip_and_normalize /\ ~c.clip_and_rescale
                      /\ ~c.random_crop /\ ~c.center_crop }

InitRead ==
    /\ ReallocIdle
    /\ NearestIdle
    /\ \E c \in ReadConfigs : \E batch_size \in 1..MaxBatch :
           cfg = c @@ [batch_size |-> batch_size]
    /\ \E m \in 0..MaxShards : shards \in [1..m -> 1..MaxRecords]
    /\ \/ corrupt = <<>>
       \/ \E s \in DOMAIN shards : \E rec \in 1..shards[s] :
            \E defect \in {"missing_key", "bad_shape"} :
                corrupt = (<<s, rec>> :> defect)
    /\ gd_pc = "check"
    /\ gd_error = NoError
    /\ io = NoIO
    /\ pos = [s \in DOMAIN shards |-> 0]
    /\ sample = NoSample
    /\ batch = <<>>
    /\ delivered = {}
    /\ batches = 0
    /\ batch_sizes = <<>>
    /\ epochs = <<>>
    /\ rng = 0
    /\ CallIdle
    /\ HttpIdle

SpecRead == InitRead /\ [][NextPipeline]_vars

\* The dataset iterated again from its start, as model.fit does once per
\* epoch: a new iterator opens the shards listed when the dataset was built
\* and reads them from their first record.
InitEpochs ==
    /\ ReallocIdle
    /\ NearestIdle
    /\ \E c \in ReadConfigs : \E batch_size \in 1..MaxBatch :
           cfg = c @@ [batch_size |-> batch_size]
    /\ \E m \in 0..MaxShards : shards \in [1..m -> 1..MaxRecords]
    /\ corrupt = <<>>
    /\ gd_pc = "check"
    /\ gd_error = NoError
    /\ io = NoIO
    /\ pos = [s \in DOMAIN shards |-> 0]
    /\ sample = NoSample
    /\ batch = <<>>
    /\ delivered = {}
    /\ batches = 0
    /\ batch_sizes = <<>>
    /\ epochs = <<>>
    /\ rng = 0
    /\ CallIdle
    /\ HttpIdle

\* The next epoch with an iterator that resumes where the last one stopped.
ReiterateResuming ==
    /\ gd_pc = "exhausted"
    /\ Len(epochs) + 1 < MaxEpochs
    /\ epochs' = Append(epochs, [delivered |-> delivered, batch_sizes |-> batch_sizes])
    /\ batch' = <<>>
    /\ delivered' = {}
    /\ batches' = 0
    /\ batch_sizes' = <<>>
    /\ gd_pc' = "iterating"
    /\ UNCHANGED <<cfg, shards, gd_error, io, pos, sample, corrupt, rng, realloc_vars, nearest_vars, call_vars, http_vars>>

\* The next epoch of model.fit: the exhausted dataset is iterated again.
Reiterate ==
    /\ gd_pc = "exhausted"
    /\ Len(epochs) + 1 < MaxEpochs
    /\ epochs' = Append(epochs, [delivered |-> delivered, batch_sizes |-> batch_sizes])
    /\ pos' = [s \in DOMAIN shards |-> 0]
    /\ batch' = <<>>
    /\ delivered' = {}
    /\ batches' = 0
    /\ batch_sizes' = <<>>
    /\ gd_pc' = "iterating"
    /\ UNCHANGED <<cfg, shards, gd_error, io, sample, corrupt, rng, realloc_vars, nearest_vars, call_vars, http_vars>>

NextEpochs ==
    \/ NextPipeline
    \/ Reiterate

\* The statements of get_dataset follow one another and the consumer keeps
\* pulling: a step that can be taken is taken.
SpecEpochs == InitEpochs /\ [][NextEpochs]_vars /\ WF_vars(NextEpochs)

----------------------------------------------------------------------------
(* The HTTP routes (backend/routes.py).  Text on a pipe is the sequence of *)
(* its tokens: the brackets and commas of a JSON array, a JSON object, a   *)
(* line break, a line of other text.                                       *)

Token(tok) == [tok |-> tok, value |-> None]
ObjectToken(object) == [tok |-> "object", value |-> object]

ErrJSONDecode == "JSONDecodeError"
ErrNoPython == "[Errno 2] No such file or directory: 'python'"
ErrKeyInputData == "KeyError: 'input_data'"
ErrUnsupportedMediaType == "415 Unsupported Media Type"
ErrPredict == "ValueError: input incompatible with the model"
ErrNotFound == "404 Not Found"

RECURSIVE separated(_)
\* The elements of a list, a comma between two of them.
separated(list) ==
    IF list = <<>>
    THEN <<>>
    ELSE IF Len(list) = 1
         THEN <<ObjectToken(list[1])>>
         ELSE <<ObjectToken(list[1]), Token(",")>> \o separated(Tail(list))

\* json.dumps of a list of dicts.
json_dumps(list) == <<Token("[")>> \o separated(list) \o <<Token("]")>>

\* print(text)
print(text) == text \o <<Token("\n")>>

\* json.loads: white space around the document is skipped; the document is
\* an array of objects, or the decoding fails.
json_loads(text) ==
    LET doc == SelectSeq(text, LAMBDA t : t.tok # "\n")
        inner == SubSeq(doc, 2, Len(doc) - 1)
        is_array ==
            /\ Len(doc) >= 2
            /\ doc[1].tok = "["
            /\ doc[Len(doc)].tok = "]"
            /\ inner = <<>> \/ Len(inner) % 2 = 1
            /\ \A k \in DOMAIN inner :
                   inner[k].tok = (IF k % 2 = 1 THEN "object" ELSE ",")
    IN IF is_array
       THEN Returned([k \in 1..((Len(inner) + 1) \div 2) |-> inner[2 * k - 1].value])
       ELSE Raised(ErrJSONDecode)

\* The Transfer Events a run of the script may print.
EventPool ==
    { Pass1Event(MkRow(1, "Safe Zone", <<1, 0, 7, 4>>),
                 MkRow(2, "Critical Day 1", <<0, 0, 100, 1000>>)),
      Pass2Event(MkRow(3, "At Risk Day 3", <<1, 0, 7, 4>>),
                 MkRow(4, "Critical Day 2", <<10, 10, 3, 0>>)) }

\* What a child process may leave on its standard output: what
\* resource_optimized.py prints, nothing, a document cut short, a line of
\* other text before the document.
StdoutTexts ==
    { print(json_dumps(list)) :
          list \in UNION { [1..n -> EventPool] : n \in 0..MaxEvents } }
        \cup { <<>>,
               <<Token("["), ObjectToken(CHOOSE e \in EventPool : TRUE)>>,
               <<Token("line"), Token("\n")>> \o print(json_dumps(<<>>)) }

\* subprocess.run: the child could not be started (OSError), or it ran and
\* left its return code and its output.
Processes ==
    { [ran |-> TRUE, raised |-> TRUE, error |-> ErrNoPython] }
        \cup { [ran |-> TRUE, raised |-> FALSE, returncode |-> code,
                stdout |-> out, stderr |-> err] :
                   code \in 0..2, out \in StdoutTexts,
                   err \in { <<>>, <<Token("line"), Token("\n")>> } }

\* What the application answers: a jsonify payload, a text body, a file, the
\* error page of an HTTP exception, or the fault of an exception no handler
\* caught.
Json(code, body) == [answered |-> TRUE, kind |-> "json", code |-> code, body |-> body]
Text(code, body) == [answered |-> TRUE, kind |-> "text", code |-> code, body |-> body]
File(name) == [answered |-> TRUE, kind |-> "file", code |-> 200, body |-> name]
HttpError(code, body) == [answered |-> TRUE, kind |-> "http_error", code |-> code, body |-> body]
Fault(exception) == [answered |-> TRUE, kind |-> "fault", code |-> 500, body |-> exception]

\* The bodies of a POST /predict_spread: not JSON, a JSON object without
\* input_data, a JSON object with input_data that the model accepts or not.
PredictBodies ==
    { [json |-> FALSE, keys |-> {}, accepted |-> FALSE],
      [json |-> TRUE, keys |-> {}, accepted |-> FALSE],
      [json |-> TRUE, keys |-> {"input_data"}, accepted |-> FALSE],
      [json |-> TRUE, keys |-> {"input_data"}, accepted |-> TRUE] }

Requests ==
    { [route |-> "predict_spread", body |-> b] : b \in PredictBodies }
        \cup { [route |-> r, body |-> None] :
                   r \in {"optimize_resources", "generate_map", "evacuation_map"} }

InitRoutes ==
    /\ ReallocIdle
    /\ NearestIdle
    /\ PipelineIdle
    /\ CallIdle
    /\ http_pc = "idle"
    /\ request = [route |-> "none"]
    /\ response = [answered |-> FALSE]
    /\ process = [ran |-> FALSE]
    /\ map_file \in BOOLEAN
    /\ served = 0

\* A request arrives.
Receive ==
    /\ http_pc \in {"idle", "responded"}
    /\ served < MaxRequests
    /\ request' \in Requests
    /\ http_pc' = "received"
    /\ UNCHANGED <<response, process, map_file, served, realloc_vars, nearest_vars, pipe_vars, call_vars>>

\* predict_spread: nothing is caught.
predict_spread(body) ==
    IF ~body.json
    THEN HttpError(415, ErrUnsupportedMediaType)
    ELSE IF "input_data" \notin body.keys
         THEN Fault(ErrKeyInputData)
         ELSE IF ~body.accepted
              THEN Fault(ErrPredict)
              ELSE Json(200, [prediction |-> "prediction.tolist()"])

PredictSpread ==
    /\ http_pc = "received"
    /\ request.route = "predict_spread"
    /\ response' = predict_spread(request.body)
    /\ http_pc' = "responded"
    /\ served' = served + 1
    /\ UNCHANGED <<request, process, map_file, realloc_vars, nearest_vars, pipe_vars, call_vars>>

\* optimize_resources on what subprocess.run returned or raised.
optimize_resources(result) ==
    IF result.raised
    THEN Json(500, [status |-> "error", message |-> result.error])
    ELSE IF result.returncode = 0
         THEN LET output == json_loads(result.stdout)
              IN IF output.raised
                 THEN Json(500, [status |-> "error",
                                 message |-> "Failed to decode JSON from script output",
                                 error |-> output.error])
                 ELSE Json(200, [status |-> "success", data |-> output.value])
         ELSE Json(500, [status |-> "error",
                         message |-> "Script execution failed",
                         error |-> result.stderr])

OptimizeResources ==
    /\ http_pc = "received"
    /\ request.route = "optimize_resources"
    /\ \E result \in Processes :
           /\ process' = result
           /\ response' = optimize_resources(result)
    /\ http_pc' = "responded"
    /\ served' = served + 1
    /\ UNCHANGED <<request, map_file, realloc_vars, nearest_vars, pipe_vars, call_vars>>

\* generate_map: subprocess.run(..., check=True) raises CalledProcessError
\* on a return code other than 0, the only exception the handler catches.
generate_map(result) ==
    IF result.raised
    THEN Fault(result.error)
    ELSE IF result.returncode # 0
         THEN Text(500, "Error generating the map")
         ELSE Text(200, "Map generated successfully. <a href='/evacuation_map'>View the map</a>")

\* map.py saves generated_map.html as its last statement but one: a run
\* that returns 0 has written the file.
GenerateMap ==
    /\ http_pc = "received"
    /\ request.route = "generate_map"
    /\ \E result \in Processes :
           /\ process' = result
           /\ response' = generate_map(result)
           /\ map_file' = (map_file \/ (~result.raised /\ result.returncode = 0))
    /\ http_pc' = "responded"
    /\ served' = served + 1
    /\ UNCHANGED <<request, realloc_vars, nearest_vars, pipe_vars, call_vars>>

\* serve_map: send_from_directory raises NotFound when the file is missing.
serve_map(exists) ==
    IF exists THEN File("generated_map.html") ELSE HttpError(404, ErrNotFound)

ServeMap ==
    /\ http_pc = "received"
    /\ request.route = "evacuation_map"
    /\ response' = serve_map(map_file)
    /\ http_pc' = "responded"
    /\ served' = served + 1
    /\ UNCHANGED <<request, process, map_file, realloc_vars, nearest_vars, pipe_vars, call_vars>>

NextRoutes ==
    \/ Receive
    \/ PredictSpread
    \/ OptimizeResources
    \/ GenerateMap
    \/ ServeMap

SpecRoutes == InitRoutes /\ [][NextRoutes]_vars

----------------------------------------------------------------------------
(* What the claims speak of.                                               *)

\* The row of the loaded table that carries a county name.
RowNamed(name) == CHOOSE k \in 1..Len(df) : df[k].county_name = name
IsZoneName(name) == \E k \in 1..Len(df) : df[k].county_name = name

RowsLabeled(label) == { k \in 1..Len(df) : df[k].fire_zone = label }

\* Squared plane distance between two rows.
SqDist(a, b) ==
    (a.latitude - b.latitude) * (a.latitude - b.latitude)
        + (a.longitude - b.longitude) * (a.longitude - b.longitude)

\* floor(num/den * n) for n >= 0, by its defining inequalities.
FloorOfFraction(n, num, den) ==
    CHOOSE q \in 0..(n * num) : den * q <= num * n /\ num * n < den * (q + 1)

EventsFrom(name) == { e \in 1..Len(results) : results[e].from = name }

Pass1Over == pc \in {"pass2", "print", "done"}
Pass2Over == pc \in {"print", "done"}

\* Zone k is the source of exactly one event, which goes to a zone of the
\* target label at minimal distance and moves floor(num/den * capacity).
OneTransfer(k, target_label, num, den) ==
    /\ Cardinality(EventsFrom(df[k].county_name)) = 1
    /\ \A e \in EventsFrom(df[k].county_name) :
        /\ IsZoneName(results[e].to)
        /\ RowNamed(results[e].to) \in RowsLabeled(target_label)
        /\ \A t \in RowsLabeled(target_label) :
               SqDist(df[k], df[RowNamed(results[e].to)]) <= SqDist(df[k], df[t])
        /\ results[e].firefighters =
               FloorOfFraction(df[k].firefighter_capacity, num, den)
        /\ results[e].water =
               FloorOfFraction(df[k].water_tank_capacity, num, den)

\* C1: once pass 1 is over, every "Safe Zone" zone is, when a "Critical Day 1"
\* zone exists, the source of exactly one event; the event goes to a nearest
\* "Critical Day 1" zone and moves floor(0.40 * capacity) firefighters and
\* water.
C1_Pass1Transfers ==
    Pass1Over =>
        \A k \in RowsLabeled("Safe Zone") :
            RowsLabeled("Critical Day 1") # {} => OneTransfer(k, "Critical Day 1", 2, 5)

\* C1's scenario: A safe at (0,0) with 100 and 1000, B and C critical day 1 at
\* (1,0) and (10,10); the script printed the single event A -> B, 40 and 400.
C1_Witness ==
    /\ pc = "done"
    /\ df = << MkRow(1, "Safe Zone", <<0, 0, 100, 1000>>),
               MkRow(2, "Critical Day 1", <<1, 0, 7, 4>>),
               MkRow(3, "Critical Day 1", <<10, 10, 3, 0>>) >>
    /\ stdout.printed
    /\ stdout.text = << [from |-> "A", to |-> "B", firefighters |-> 40,
                         water |-> 400, from_zone |-> "Safe Zone",
                         to_zone |-> "Critical Day 1"] >>

\* C2: once pass 2 is over, every "At Risk Day 3" zone is, when a
\* "Critical Day 2" zone exists, the source of exactly one event; the event
\* goes to a nearest "Critical Day 2" zone and moves floor(0.20 * capacity)
\* firefighters and water.
C2_Pass2Transfers ==
    Pass2Over =>
        \A k \in RowsLabeled("At Risk Day 3") :
            RowsLabeled("Critical Day 2") # {} => OneTransfer(k, "Critical Day 2", 1, 5)

\* An at-risk zone with 7 firefighters and 4 liters chose between two
\* "Critical Day 2" zones at different distances and moved 1 and 0.
C2_Witness ==
    /\ pc = "done"
    /\ \E k \in RowsLabeled("At Risk Day 3") :
        /\ df[k].firefighter_capacity = 7
        /\ df[k].water_tank_capacity = 4
        /\ \E t, u \in RowsLabeled("Critical Day 2") :
               SqDist(df[k], df[t]) < SqDist(df[k], df[u])
        /\ \E e \in EventsFrom(df[k].county_name) :
               results[e].firefighters = 1 /\ results[e].water = 0

\* C3: for a non-empty target frame find_nearest_zone returns the first row,
\* in the frame's order, among those at minimal Euclidean distance from the
\* source.
C3_NearestFirstMinimal ==
    (nz_pc = "returned" /\ nz_targets # <<>>) =>
        \E n \in 1..Len(nz_targets) :
            /\ nz_result = nz_targets[n]
            /\ \A m \in 1..Len(nz_targets) :
                   SqDist(nz_source, nz_targets[n]) <= SqDist(nz_source, nz_targets[m])
            /\ \A m \in 1..(n - 1) :
                   SqDist(nz_source, nz_targets[m]) > SqDist(nz_source, nz_targets[n])

\* A call returned with two targets at different places at the minimal
\* distance and a nearer-listed target that is farther away.
C3_Witness ==
    /\ nz_pc = "returned"
    /\ \E n, m \in 1..Len(nz_targets) :
        /\ 1 < n /\ n < m
        /\ nz_result = nz_targets[n]
        /\ SqDist(nz_source, nz_targets[n]) = SqDist(nz_source, nz_targets[m])
        /\ <<nz_targets[n].latitude, nz_targets[n].longitude>>
               # <<nz_targets[m].latitude, nz_targets[m].longitude>>
        /\ SqDist(nz_source, nz_targets[1]) > SqDist(nz_source, nz_targets[n])

EventsOfPass(from_label) ==
    { e \in 1..Len(results) : results[e].from_zone = from_label }

\* C4: an empty target category is no error.  find_nearest_zone answers None
\* for an empty frame; a pass whose target category is empty emits no event,
\* while the other pass emits one event for each of its sources; and the
\* script is never stuck before it has printed.
C4_EmptyTargetNoError ==
    /\ \A k \in 1..Len(df) : find_nearest_zone(df[k], <<>>) = None
    /\ (Pass1Over /\ RowsLabeled("Critical Day 1") = {}) =>
           EventsOfPass("Safe Zone") = {}
    /\ (Pass2Over /\ RowsLabeled("Critical Day 2") = {}) =>
           EventsOfPass("At Risk Day 3") = {}
    /\ (Pass1Over /\ RowsLabeled("Critical Day 1") # {}) =>
           Cardinality(EventsOfPass("Safe Zone")) = Cardinality(RowsLabeled("Safe Zone"))
    /\ (Pass2Over /\ RowsLabeled("Critical Day 2") # {}) =>
           Cardinality(EventsOfPass("At Risk Day 3"))
               = Cardinality(RowsLabeled("At Risk Day 3"))
    /\ pc # "done" => ENABLED Next

\* One at-risk zone, no "Critical Day 2" zone: the script printed, with the
\* events of pass 1 and none of pass 2.
C4_Witness ==
    /\ pc = "done"
    /\ Cardinality(RowsLabeled("At Risk Day 3")) = 1
    /\ RowsLabeled("Critical Day 2") = {}
    /\ EventsOfPass("At Risk Day 3") = {}
    /\ EventsOfPass("Safe Zone") # {}
    /\ stdout = [printed |-> TRUE, text |-> results]

\* C5: in the results list no event of pass 2 precedes an event of pass 1,
\* and two events of the same pass stand in the row order of their sources.
C5_EventOrder ==
    \A e1, e2 \in 1..Len(results) :
        e1 < e2 =>
            /\ ~(results[e1].from_zone = "At Risk Day 3"
                    /\ results[e2].from_zone = "Safe Zone")
            /\ results[e1].from_zone = results[e2].from_zone =>
                   RowNamed(results[e1].from) < RowNamed(results[e2].from)

\* The printed list holds an event of pass 1 before an event of pass 2 whose
\* source stands earlier in the table, and moves less than the event after it.
C5_Witness ==
    /\ pc = "done"
    /\ stdout = [printed |-> TRUE, text |-> results]
    /\ \E e1, e2 \in 1..Len(results) :
        /\ e1 < e2
        /\ results[e1].from_zone = "Safe Zone"
        /\ results[e2].from_zone = "At Risk Day 3"
        /\ RowNamed(results[e2].from) < RowNamed(results[e1].from)
        /\ results[e1].firefighters < results[e2].firefighters

\* C6: every event's from_zone and to_zone are the labels its source and its
\* destination carry in the table, and the pair is (Safe Zone, Critical Day 1)
\* or (At Risk Day 3, Critical Day 2).
C6_CategoryPairs ==
    \A e \in 1..Len(results) :
        /\ IsZoneName(results[e].from)
        /\ IsZoneName(results[e].to)
        /\ df[RowNamed(results[e].from)].fire_zone = results[e].from_zone
        /\ df[RowNamed(results[e].to)].fire_zone = results[e].to_zone
        /\ <<results[e].from_zone, results[e].to_zone>>
               \in { <<"Safe Zone", "Critical Day 1">>,
                     <<"At Risk Day 3", "Critical Day 2">> }

\* The table holds all four categories and the script printed one event of
\* each pair.
C6_Witness ==
    /\ pc = "done"
    /\ \A c \in Categories : RowsLabeled(c) # {}
    /\ EventsOfPass("Safe Zone") # {}
    /\ EventsOfPass("At Risk Day 3") # {}

C8_TransformConflictBeforeIO ==
    /\ (cfg.clip_and_normalize /\ cfg.clip_and_rescale /\ gd_pc # "check") =>
           (gd_pc = "raised" /\ gd_error = ErrNormalizeRescale)
    /\ gd_error = ErrNormalizeRescale =>
           (io = NoIO /\ sample = NoSample /\ \A s \in DOMAIN shards : pos[s] = 0)

\* Both transforms were requested, files match the pattern, and the call
\* raised.
C8_Witness ==
    /\ cfg.clip_and_normalize
    /\ cfg.clip_and_rescale
    /\ shards # <<>>
    /\ gd_pc = "raised"
    /\ gd_error = ErrNormalizeRescale

\* C9: a configuration with random_crop and center_crop both true raises the
\* configuration error before the file pattern is listed and before any shard
\* is opened or any record is read.
C9_CropConflictBeforeIO ==
    gd_error = ErrBothCrops => io = NoIO

\* C10: every sample produced has input, output and weight tensors of height
\* and width sample_size, and sample_size <= data_size.
C10_SampleSide ==
    sample.produced =>
        /\ sample.input_hw = <<cfg.sample_size, cfg.sample_size>>
        /\ sample.output_hw = <<cfg.sample_size, cfg.sample_size>>
        /\ sample.weights_hw = <<cfg.sample_size, cfg.sample_size>>
        /\ cfg.sample_size <= cfg.data_size

----------------------------------------------------------------------------
(* Claims about the feature keys and the clip transforms.                  *)

\* c is one of the alphabetic characters.
IsAlphabetic(c) == c \in asciiLetters

\* A time-indexed key of the tmmx feature, and the feature's own name.
Key_tmmx_3 == <<"t", "m", "m", "x", "_", "3">>
Key_tmmx == <<"t", "m", "m", "x">>

\* C18: _get_base_key returns the leading alphabetic run of the key, so
\* "tmmx_3" resolves to the statistic entry of "tmmx"; a key that does not
\* start with an alphabetic character fails with the key-format error.
C18_BaseKey ==
    (call.fn = "_get_base_key" /\ call_pc = "returned") =>
        LET key == call.key
        IN /\ IF Len(key) > 0 /\ IsAlphabetic(key[1])
              THEN /\ ~ret.raised
                   /\ \E n \in 1..Len(key) :
                          /\ ret.value = SubSeq(key, 1, n)
                          /\ \A i \in 1..n : IsAlphabetic(key[i])
                          /\ n = Len(key) \/ ~IsAlphabetic(key[n + 1])
              ELSE /\ ret.raised
                   /\ ret.error = ErrKeyPattern
           /\ key = Key_tmmx_3 =>
                  /\ ret.value = Key_tmmx
                  /\ data_stats[ret.value] = DATA_STATS[Key_tmmx]

C18_Witness ==
    /\ call.fn = "_get_base_key"
    /\ call_pc = "returned"
    /\ call.key = Key_tmmx_3
    /\ ~ret.raised
    /\ ret.value = Key_tmmx

\* The key resolves to an entry of the statistics table; that entry.
Resolves(key) ==
    /\ ~_get_base_key(key).raised
    /\ _get_base_key(key).value \in DOMAIN data_stats

StatFor(key) == data_stats[_get_base_key(key).value]

\* x limited to the interval from lo to hi.
Clamp(x, lo, hi) == IF x < lo THEN lo ELSE IF x > hi THEN hi ELSE x

\* A finite number: zero, one, or within the unit interval.
IsFinite(q) == q.den # 0
IsZero(q) == q.den # 0 /\ q.num = 0
IsOne(q) == q.den # 0 /\ q.num = q.den
InUnitInterval(q) == q.den > 0 /\ 0 <= q.num /\ q.num <= q.den

C16_NormalizeMean ==
    (call.fn = "_clip_and_normalize" /\ call_pc = "returned" /\ Resolves(call.key)) =>
        LET stat == StatFor(call.key)
            clamped == Clamp(call.inputs, min_clip(stat), max_clip(stat))
        IN /\ ~ret.raised
           /\ clamped = mean(stat) => IsZero(ret.value)
           /\ std(stat) # 0 => ret.value = Quotient(clamped - mean(stat), std(stat))

C16_Witness ==
    /\ call.fn = "_clip_and_normalize"
    /\ call_pc = "returned"
    /\ Resolves(call.key)
    /\ std(StatFor(call.key)) # 0
    /\ mean(StatFor(call.key)) # min_clip(StatFor(call.key))
    /\ call.inputs = mean(StatFor(call.key))
    /\ ~ret.raised
    /\ IsZero(ret.value)

\* C17: a zero denominator never propagates: _clip_and_rescale returns 0 for
\* every input when max_clip equals min_clip, _clip_and_normalize returns 0
\* when std is 0, and neither raises nor yields a NaN or an infinity.
C17_NoDivisionByZero ==
    (/\ call.fn \in {"_clip_and_rescale", "_clip_and_normalize"}
     /\ call_pc = "returned"
     /\ Resolves(call.key)) =>
        LET stat == StatFor(call.key)
        IN /\ ~ret.raised
           /\ IsFinite(ret.value)
           /\ (call.fn = "_clip_and_rescale" /\ max_clip(stat) = min_clip(stat))
                  => IsZero(ret.value)
           /\ (call.fn = "_clip_and_normalize" /\ std(stat) = 0)
                  => IsZero(ret.value)

C17_Witness ==
    /\ call.fn = "_clip_and_rescale"
    /\ call_pc = "returned"
    /\ Resolves(call.key)
    /\ max_clip(StatFor(call.key)) = min_clip(StatFor(call.key))
    /\ call.inputs > max_clip(StatFor(call.key))
    /\ ~ret.raised
    /\ IsZero(ret.value)

----------------------------------------------------------------------------
(* Claims about the sample _parse_fn returns.                              *)

\* Every cell (i, j) of the tensor was decoded at tile cell (i + dy, j + dx).
DecodedAtOffset(tensor, dy, dx) ==
    \A ix \in Indices(tensor.shape) :
        tensor.cell[ix].at = <<ix[1] + dy, ix[2] + dx>>

\* C11: the input, the output and the weights of a sample are cropped at one
\* offset: cell (i, j) of each of them, in every channel, comes from tile
\* cell (i + dy, j + dx) for a single (dy, dx), under the random crop and
\* under the center crop.
C11_SharedCropOffset ==
    (call.fn = "_parse_fn" /\ call_pc = "returned") =>
        LET input_img == ret.value.input_img
            output_img == ret.value.output_img
            weights == ret.value.weights
        IN /\ output_img.shape[1] = input_img.shape[1]
           /\ output_img.shape[2] = input_img.shape[2]
           /\ weights.shape = output_img.shape
           /\ \E dy \in 0..call.data_size : \E dx \in 0..call.data_size :
                  /\ DecodedAtOffset(input_img, dy, dx)
                  /\ DecodedAtOffset(output_img, dy, dx)
                  /\ DecodedAtOffset(weights, dy, dx)

C11_Witness ==
    /\ call.fn = "_parse_fn"
    /\ call_pc = "returned"
    /\ call.random_crop
    /\ call.num_in_channels = Len(INPUT_FEATURES)
    /\ DecodedAtOffset(ret.value.input_img, 1, 0)
    /\ DecodedAtOffset(ret.value.output_img, 1, 0)

\* C12: channel i of the input of a sample holds the i-th feature of
\* INPUT_FEATURES and the single output channel holds FireMask, after the
\* crop as before it, whatever num_in_channels is.
C12_ChannelOrder ==
    (call.fn = "_parse_fn" /\ call_pc = "returned") =>
        LET input_img == ret.value.input_img
            output_img == ret.value.output_img
        IN /\ input_img.shape[3] = Len(INPUT_FEATURES)
           /\ \A ix \in Indices(input_img.shape) :
                  input_img.cell[ix].feature = INPUT_FEATURES[ix[3] + 1]
           /\ output_img.shape[3] = 1
           /\ \A ix \in Indices(output_img.shape) :
                  output_img.cell[ix].feature = OUTPUT_FEATURES[1]

\* The number is negative.
IsNegative(q) == (q.num < 0 /\ q.den > 0) \/ (q.num > 0 /\ q.den < 0)

\* C13: the weights of a sample have the shape of its cropped output and
\* hold, cell by cell, 1 where the output is at least 0 and 0 where it is
\* negative, whatever the negative value.
C13_Weights ==
    (call.fn = "_parse_fn" /\ call_pc = "returned") =>
        LET output_img == ret.value.output_img
            weights == ret.value.weights
        IN /\ weights.shape = output_img.shape
           /\ \A ix \in Indices(output_img.shape) :
                  weights.cell[ix].value =
                      IF IsNegative(output_img.cell[ix].value) THEN 0 ELSE 1

C13_Witness ==
    /\ call.fn = "_parse_fn"
    /\ call_pc = "returned"
    /\ ret.value.output_img.shape = <<2, 2, 1>>
    /\ ret.value.output_img.cell[<<0, 0, 0>>].value = Raw(0 - Unit)
    /\ ret.value.output_img.cell[<<0, 1, 0>>].value = Raw(0 - Unit)
    /\ ret.value.output_img.cell[<<1, 0, 0>>].value = Raw(0)
    /\ ret.value.output_img.cell[<<1, 1, 0>>].value = Raw(Unit)
    /\ ret.value.weights.cell[<<0, 0, 0>>].value = 0
    /\ ret.value.weights.cell[<<0, 1, 0>>].value = 0
    /\ ret.value.weights.cell[<<1, 0, 0>>].value = 1
    /\ ret.value.weights.cell[<<1, 1, 0>>].value = 1

\* The value the example holds for a feature at a tile cell, row by row.
ValueInExample(key, at) ==
    call.example_proto[key][at[1] * call.data_size + at[2] + 1]

\* What the configured transform makes of a value of an input feature.
Transformed(x, key) ==
    IF call.clip_and_normalize
    THEN _clip_and_normalize(x, key).value
    ELSE IF call.clip_and_rescale
         THEN _clip_and_rescale(x, key).value
         ELSE Raw(x)

\* C14: tile parsing applies the configured transform to the input features
\* only: under every transform configuration each cell of the stacked output
\* is the FireMask value decoded at that tile cell, and every FireMask cell
\* of the sample returned still holds the value decoded for it.
C14_OutputsUntransformed ==
    /\ (call.fn = "_parse_fn" /\ call_pc = "stacked") =>
           LET input_img == ret.value.input_img
               output_img == ret.value.output_img
           IN /\ output_img.shape = <<call.data_size, call.data_size, 1>>
              /\ \A ix \in Indices(output_img.shape) :
                     /\ output_img.cell[ix].feature = OUTPUT_FEATURES[1]
                     /\ output_img.cell[ix].at = <<ix[1], ix[2]>>
                     /\ output_img.cell[ix].value =
                            Raw(ValueInExample(OUTPUT_FEATURES[1], <<ix[1], ix[2]>>))
              /\ \A ix \in Indices(input_img.shape) :
                     input_img.cell[ix].value =
                         Transformed(ValueInExample(INPUT_FEATURES[ix[3] + 1],
                                                    <<ix[1], ix[2]>>),
                                     INPUT_FEATURES[ix[3] + 1])
    /\ (call.fn = "_parse_fn" /\ call_pc = "returned") =>
           \A name \in {"input_img", "output_img"} :
               \A ix \in Indices(ret.value[name].shape) :
                   LET cell == ret.value[name].cell[ix]
                   IN cell.feature = OUTPUT_FEATURES[1] =>
                          cell.value = Raw(ValueInExample(cell.feature, cell.at))

C14_Witness ==
    /\ call.fn = "_parse_fn"
    /\ call_pc = "returned"
    /\ call.clip_and_rescale
    /\ ~call.clip_and_normalize
    /\ call.num_in_channels = Len(INPUT_FEATURES)
    /\ ret.value.output_img.cell[<<0, 0, 0>>].feature = OUTPUT_FEATURES[1]
    /\ ret.value.output_img.cell[<<0, 0, 0>>].value = Raw(0 - Unit)
    /\ ret.value.input_img.cell[<<0, 0, 11>>].feature = INPUT_FEATURES[12]
    /\ IsZero(ret.value.input_img.cell[<<0, 0, 11>>].value)

\* The call got as far as its transforms: the crop flags passed the check
\* and the example was decoded.
ReachedTransforms ==
    /\ call.fn = "_parse_fn"
    /\ call_pc # "called"
    /\ ~(call.random_crop /\ call.center_crop)
    /\ ~parse_single_example_fails(
            call.example_proto,
            _get_features_dict(call.data_size, INPUT_FEATURES \o OUTPUT_FEATURES))

\* The features of the example without an entry in the statistics table.
Unresolved(features) == { i \in DOMAIN features : ~Resolves(features[i]) }

\* C19, as claimed: whenever a feature name of the tile record resolves to no
\* entry of the statistics table the call fails with the lookup error, under
\* clip-and-normalize, clip-and-rescale and no transform alike.
C19_LookupAlways ==
    ReachedTransforms =>
        (Unresolved(INPUT_FEATURES \o OUTPUT_FEATURES) # {} =>
            ret.raised /\ ret.error = ErrNoStats)

\* C19, amended: under clip-and-normalize and under clip-and-rescale every
\* input feature name must resolve, after base-key extraction, to an entry of
\* the statistics table, otherwise the call fails with the lookup error;
\* with no transform, and for the output feature under every configuration,
\* the table is not consulted and no lookup error is raised.
C19_LookupUnderTransform ==
    ReachedTransforms =>
        LET transforming == call.clip_and_normalize \/ call.clip_and_rescale
        IN IF transforming /\ Unresolved(INPUT_FEATURES) # {}
           THEN ret.raised /\ ret.error = ErrNoStats
           ELSE ret.error # ErrNoStats

C19_Witness ==
    /\ ReachedTransforms
    /\ call.clip_and_rescale
    /\ ~call.clip_and_normalize
    /\ Unresolved(INPUT_FEATURES) = {11}
    /\ call_pc = "raised"
    /\ ret.error = ErrNoStats

----------------------------------------------------------------------------
(* Claims about the reading of malformed records.                          *)

\* Record rec of shard s lacks a declared feature or holds a grid that is
\* not data_size x data_size.
Malformed(s, rec) ==
    LET example == RecordExample(s, rec)
        declared == INPUT_FEATURES \o OUTPUT_FEATURES
    IN \E i \in DOMAIN declared :
           \/ declared[i] \notin DOMAIN example
           \/ Len(example[declared[i]]) # cfg.data_size * cfg.data_size

\* A malformed record has been read.
MalformedRead == \E s \in DOMAIN pos : \E rec \in 1..pos[s] : Malformed(s, rec)

\* C20: a malformed record is a hard failure of the whole read: it is never
\* skipped; once it is parsed the iteration has failed, no further record is
\* read and no further batch delivered, and no sample of a malformed record
\* is in a batch, delivered or gathered.
C20_MalformedRecordFails ==
    gd_pc \in {"iterating", "failed", "exhausted"} =>
        /\ MalformedRead => (gd_pc = "failed" /\ gd_error = ErrParseExample)
        /\ gd_pc = "failed" => ~ENABLED NextPipeline
        /\ \A id \in delivered \cup { batch[k] : k \in DOMAIN batch } :
               ~Malformed(id[1], id[2])

C20_Witness ==
    /\ gd_pc = "failed"
    /\ gd_error = ErrParseExample
    /\ MalformedRead
    /\ batches >= 1
    /\ \E s \in DOMAIN shards : pos[s] < shards[s]

----------------------------------------------------------------------------
(* Claims about the batches of the dataset.                                *)

\* The records of the matched shards, as <<shard, record>>.
AllRecords == { id \in (DOMAIN shards) \X (1..MaxRecords) : id[2] <= shards[id[1]] }

\* The records read so far.
RecordsRead == { id \in AllRecords : id[2] <= pos[id[1]] }

\* The records whose samples dataset.batch holds for the next batch.
Gathered == { batch[k] : k \in DOMAIN batch }

RECURSIVE SumOf(_)
SumOf(sizes) == IF sizes = <<>> THEN 0 ELSE Head(sizes) + SumOf(Tail(sizes))

\* C21: while the dataset is iterated, in any interleaving of the shard
\* reads, every record read is in the gathered batch or in a delivered one
\* and in no two places (the delivered batches hold as many samples as there
\* are delivered records, the gathered samples are of distinct records that
\* are not delivered); the sample produced last is that of one record, the
\* one read last; every delivered batch holds batch_size samples, but the
\* last one of the exhausted sequence, which holds between 1 and batch_size;
\* and when the sequence is exhausted every record of every shard has been
\* delivered.
C21_ExactlyOnceBatches ==
    (gd_pc \in {"iterating", "exhausted"}) =>
        /\ delivered \cup Gathered = RecordsRead
        /\ delivered \cap Gathered = {}
        /\ Cardinality(Gathered) = Len(batch)
        /\ SumOf(batch_sizes) = Cardinality(delivered)
        /\ Len(batch_sizes) = batches
        /\ sample.produced =>
               /\ <<sample.shard, sample.record>> \in RecordsRead
               /\ sample = parse_fn(cfg, sample.shard, sample.record, sample.offset)
        /\ \A k \in DOMAIN batch_sizes :
               \/ batch_sizes[k] = cfg.batch_size
               \/ /\ k = Len(batch_sizes)
                  /\ gd_pc = "exhausted"
                  /\ batch_sizes[k] \in 1..cfg.batch_size
        /\ gd_pc = "exhausted" => (delivered = AllRecords /\ batch = <<>>)

\* Three records in two shards, batched by two: a full batch and a last
\* batch of one.
C21_Witness ==
    /\ gd_pc = "exhausted"
    /\ cfg.batch_size = 2
    /\ Len(shards) = 2
    /\ Cardinality(AllRecords) = 3
    /\ batch_sizes = <<2, 1>>
    /\ delivered = AllRecords

\* ceil(n / d)
CeilDiv(n, d) == (n + d - 1) \div d

\* C22: the batch sequence is finite and restartable: an iteration of the
\* dataset over well-formed shards, pulled on, ends, and it ends after
\* ceil(N / batch_size) batches, N being the number of records; every
\* iteration completed before delivered the same records as this one, each
\* once.
C22_FiniteRestartable ==
    /\ (gd_pc = "iterating") ~> (gd_pc = "exhausted")
    /\ [](gd_pc = "exhausted" =>
            /\ batches = CeilDiv(Cardinality(AllRecords), cfg.batch_size)
            /\ SumOf(batch_sizes) = Cardinality(AllRecords)
            /\ \A e \in DOMAIN epochs :
                   /\ epochs[e].delivered = delivered
                   /\ SumOf(epochs[e].batch_sizes) = SumOf(batch_sizes)
                   /\ Len(epochs[e].batch_sizes) = batches)

\* The second iteration of three records batched by two has ended.
C22_Witness ==
    /\ gd_pc = "exhausted"
    /\ Len(epochs) = 1
    /\ cfg.batch_size = 2
    /\ Cardinality(AllRecords) = 3
    /\ batches = 2
    /\ epochs[1].delivered = AllRecords

----------------------------------------------------------------------------
(* Claims about the HTTP routes.                                           *)

\* The request answered last asked for the route.
Answered(route) == http_pc = "responded" /\ request.route = route

\* The script ran, returned 0 and printed a JSON document.
ScriptSucceeded ==
    /\ ~process.raised
    /\ process.returncode = 0
    /\ ~json_loads(process.stdout).raised

\* C23: /optimize_resources always answers with a structured payload:
\* {status: "success", data: the decoded output} exactly when the script
\* returns 0 and its output decodes as JSON, otherwise {status: "error",
\* message, error}, with one message for a return code other than 0 and
\* another for an output that does not decode.
C23_StructuredPayload ==
    Answered("optimize_resources") =>
        /\ response.kind = "json"
        /\ IF ScriptSucceeded
           THEN response.body = [status |-> "success",
                                 data |-> json_loads(process.stdout).value]
           ELSE /\ DOMAIN response.body = {"status", "message", "error"}
                /\ response.body.status = "error"
                /\ (~process.raised /\ process.returncode # 0) =>
                       response.body.message = "Script execution failed"
                /\ (~process.raised /\ process.returncode = 0) =>
                       response.body.message = "Failed to decode JSON from script output"

\* C24: every route answers every request with a structured payload that
\* carries a status discriminator; no exception reaches the transport layer.
C24_EveryOutcomeStructured ==
    http_pc = "responded" =>
        /\ response.kind = "json"
        /\ "status" \in DOMAIN response.body
        /\ response.body.status \in {"success", "error"}

----------------------------------------------------------------------------
(* Claims about the choice of the crop.                                    *)

BothCrops == cfg.random_crop /\ cfg.center_crop
NeitherCrop == ~cfg.random_crop /\ ~cfg.center_crop

\* A get_dataset call that gets as far as wrapping _parse_fn: its transform
\* flags do not conflict and its file pattern matches.
ReachesParse == ~(cfg.clip_and_normalize /\ cfg.clip_and_rescale) /\ shards # <<>>

\* A configuration requesting both crops is rejected: it produces no sample,
\* get_dataset does not return, and the call that reaches _parse_fn raises
\* the crop configuration error.
BothCropsRejected ==
    BothCrops =>
        /\ ~sample.produced
        /\ gd_pc \in {"check", "list", "interleave", "map", "raised"}
        /\ (gd_pc = "raised" /\ ReachesParse) => gd_error = ErrBothCrops

\* C25 as stated: exactly one crop may be requested: a configuration
\* requesting both is rejected with the configuration error, and a
\* configuration requesting neither produces no sample.
C25_ExactlyOneCrop ==
    /\ BothCropsRejected
    /\ NeitherCrop => ~sample.produced

\* C25, amended: at most one crop may be requested: a configuration
\* requesting both is rejected with the configuration error; a configuration
\* requesting neither raises no crop error and its samples are the uncropped
\* tiles, of side data_size.
C25_AtMostOneCrop ==
    /\ BothCropsRejected
    /\ NeitherCrop =>
           /\ gd_error \notin {ErrBothCrops, ErrCentralFraction, ErrCropSize}
           /\ sample.produced =>
                  /\ sample.offset = <<0, 0>>
                  /\ sample.input_hw = <<cfg.data_size, cfg.data_size>>
                  /\ sample.output_hw = <<cfg.data_size, cfg.data_size>>
                  /\ sample.weights_hw = <<cfg.data_size, cfg.data_size>>

\* Both crops were requested of a call that reached _parse_fn, and it raised.
C25_Witness ==
    /\ BothCrops
    /\ ReachesParse
    /\ gd_pc = "raised"
    /\ gd_error = ErrBothCrops

----------------------------------------------------------------------------
(* Claims about the zone table during the reallocation.                    *)

\* The row of the file that carries a county name.
FileRow(name) == csv[CHOOSE k \in 1..Len(csv) : csv[k].county_name = name]

\* The target frame of an event's pass, selected from the file.
TargetsInFile(event) ==
    SelectRows(read_csv(csv), IF event.from_zone = "Safe Zone" THEN 4 ELSE 3)

\* C26: no zone record is mutated during the reallocation: at every step of
\* both passes and after them the frame holds the rows of the file as loaded
\* (name, latitude, longitude, capacities, label), the two target frames are
\* the rows of their category in the file's order, and the destination of
\* every event emitted is the nearest target of its source in the target
\* frame as loaded.
C26_ZonesReadOnly ==
    /\ df = read_csv(csv)
    /\ critical_zones_1 = SelectRows(read_csv(csv), 4)
    /\ critical_zones_2 = SelectRows(read_csv(csv), 3)
    /\ \A e \in DOMAIN results :
           results[e].to =
               find_nearest_zone(FileRow(results[e].from),
                                 TargetsInFile(results[e])).county_name

\* Both passes emitted an event and the script ended.
C26_Witness ==
    /\ pc = "done"
    /\ EventsOfPass("Safe Zone") # {}
    /\ EventsOfPass("At Risk Day 3") # {}
    /\ df = read_csv(csv)

\* C29: transfers never exceed what the source holds: every zone is the
\* source of at most one event of the whole output, and every event moves
\* between 0 and the source's firefighter_capacity firefighters and between
\* 0 and the source's water_tank_capacity of water.
C29_WithinCapacity ==
    \A e \in DOMAIN results :
        LET source == FileRow(results[e].from)
        IN /\ Cardinality(EventsFrom(results[e].from)) = 1
           /\ 0 <= results[e].firefighters
           /\ results[e].firefighters <= source.firefighter_capacity
           /\ 0 <= results[e].water
           /\ results[e].water <= source.water_tank_capacity

\* A zone with 7 firefighters and 4 liters gave 2 and 1 in the first pass,
\* another gave in the second, and the script ended.
C29_Witness ==
    /\ pc = "done"
    /\ \E e \in EventsOfPass("Safe Zone") :
           /\ FileRow(results[e].from).firefighter_capacity = 7
           /\ results[e].firefighters = 2
           /\ results[e].water = 1
    /\ EventsOfPass("At Risk Day 3") # {}

\* The county names of the rows whose label is none of the four categories.
Unlabeled == { df[k].county_name : k \in { j \in 1..Len(df) : df[j].fire_zone \notin Categories } }

\* C30: no zone is both a source and a destination anywhere in the output;
\* a zone whose label is none of the four categories is neither source nor
\* destination of any event, and no invocation of the script with such a
\* zone in its table is stuck before it has printed.
C30_SourcesApartFromTargets ==
    /\ \A e, f \in DOMAIN results : results[e].from # results[f].to
    /\ \A e \in DOMAIN results :
           results[e].from \notin Unlabeled /\ results[e].to \notin Unlabeled
    /\ pc # "done" => ENABLED NextRerun

\* A table with a zone of another label, and the script ended with events.
C30_Witness ==
    /\ pc = "done"
    /\ stdout.printed
    /\ Unlabeled # {}
    /\ results # <<>>

----------------------------------------------------------------------------
(* Claims about the center crop.                                           *)

\* C27: for a tile of side data_size and any sample_size <= data_size, the
\* difference odd or even, the center crop returns the input and the output
\* cut to the square of side exactly sample_size that lies in the center of
\* the tile: its margins on the two sides differ by one cell at most.
C27_CenterCropExact ==
    (/\ call.fn = "_parse_fn"
     /\ call_pc = "returned"
     /\ call.center_crop
     /\ call.sample_size <= call.data_size) =>
        LET input_img == ret.value.input_img
            output_img == ret.value.output_img
            margin == call.data_size - call.sample_size
        IN /\ input_img.shape[1] = call.sample_size
           /\ input_img.shape[2] = call.sample_size
           /\ output_img.shape[1] = call.sample_size
           /\ output_img.shape[2] = call.sample_size
           /\ \E d \in { margin \div 2, margin - (margin \div 2) } :
                  /\ DecodedAtOffset(input_img, d, d)
                  /\ DecodedAtOffset(output_img, d, d)

----------------------------------------------------------------------------
(* Claims about the state shared by the parsing of the records.            *)

\* The offset of a crop that draws nothing: that of the center crop, or
\* none.
FixedOffset(c) ==
    IF c.center_crop
    THEN <<central_crop_start(c.data_size, c.sample_size),
           central_crop_start(c.data_size, c.sample_size)>>
    ELSE <<0, 0>>

\* C28 as stated: the parsing of the records shares no mutable state: no
\* parse writes state another parse reads, so the generator the crop draws
\* from, the only state of the pipeline a parse could write, is as it was
\* when the dataset was built, and the sample of a record is determined by
\* the record and the configuration.
C28_NoSharedState ==
    /\ rng = 0
    /\ sample.produced =>
           sample = parse_fn(cfg, sample.shard, sample.record, FixedOffset(cfg))

\* C28, amended: the parsing of the records shares no mutable state but the
\* generator of the random crop.  Without the random crop nothing is drawn
\* and the sample of a record is determined by the record and the
\* configuration; with it every parse draws its offset from the generator,
\* advancing it, and but for that offset the sample is determined by the
\* record and the configuration.
C28_SharedStateIsGenerator ==
    /\ sample.produced =>
           /\ sample.offset \in random_crop_offsets(cfg.data_size, cfg.sample_size)
                  \cup {FixedOffset(cfg)}
           /\ sample = parse_fn(cfg, sample.shard, sample.record, sample.offset)
    /\ ~cfg.random_crop =>
           /\ rng = 0
           /\ sample.produced => sample.offset = FixedOffset(cfg)
    /\ (cfg.random_crop /\ gd_pc \in {"iterating", "exhausted"}) => rng = io.read

\* Two records were cropped at random, the second one off the corner.
C28_Witness ==
    /\ cfg.random_crop
    /\ gd_pc = "iterating"
    /\ rng = 2
    /\ sample.produced
    /\ sample.offset # <<0, 0>>

====
